---- MODULE Spec2Model ----
(***************************************************************************)
(* PrizePop ticket / prize reservation flow.                               *)
(*                                                                         *)
(* The store is the TicketCode table.  Every storefront route is a request *)
(* handler that issues its prisma statements one after the other; between  *)
(* two awaited statements of one request, the statements of other requests *)
(* may run.  A request is therefore a small process: `reqs[r].pc` is the    *)
(* statement it will issue next, the other fields of `reqs[r]` are its     *)
(* local variables, and `out` / `tok` are the response it returned.        *)
(*                                                                         *)
(* Time is counted in ticks of TickMinutes minutes.                        *)
(***************************************************************************)
EXTENDS Integers, Sequences, FiniteSets, TLC

\* ---------------------------------------------------------------- bounds
MaxTime == 2
\* the clock of the token flow runs past the lifetime of a token
MaxTokenTime == 3

\* ------------------------------------------------------------- universes
TicketIds == {"t1", "t2"}
Prizes    == {"p1", "p2"}
Emails    == {"a@x", "b@x"}
ReqIds    == {"r1", "r2"}
Orders    == {"o1"}
Nonces    == {"k1", "k2"}

Null     == "null"
NullDate == -1

Statuses == {"ACTIVE", "RESERVED", "DISABLED", "ACTIVATE"}

\* ------------------------------------------------------- time constants
TickMinutes == 60

\* a duration in minutes, in ticks (rounded up, so that no window is empty)
Ticks(minutes) == (minutes + TickMinutes - 1) \div TickMinutes

CART_RESERVATION_WINDOW  == Ticks(15)
CLAIM_RESERVATION_WINDOW == Ticks(120)
REDEEM_SESSION_WINDOW    == Ticks(120)

\* lifetime of the tokens the storefront routes sign, and of the token RedeemCode signs
REDEEM_TOKEN_EXPIRY_SECONDS       == Ticks(120)
REDEEM_ROUTE_TOKEN_EXPIRY_SECONDS == Ticks(10)

JWT_SECRET == "secret"

VARIABLES tickets, now, reqs, tokens, redeemedPrize

vars == <<tickets, now, reqs, tokens, redeemedPrize>>

\* ------------------------------------------------------------ the store
CodeOf(t) == IF t = "t1" THEN "c1" ELSE "c2"
TypeOf(t) == IF t = "t1" THEN "Golden" ELSE "Platinum"

Codes == {CodeOf(t) : t \in TicketIds}

\* create({data: {code, type, status: "ACTIVE"}}); createdAt defaults to the
\* time of the insert
NewTicket(code, type, createdAt) ==
  [code |-> code, type |-> type, status |-> "ACTIVE", email |-> Null,
   expiresAt |-> NullDate, verifyKey |-> Null,
   usedAt |-> NullDate, usedOrderId |-> Null,
   reservedPrizeId |-> Null, reservationExpiresAt |-> NullDate,
   createdAt |-> createdAt]

\* an id under which the table has no row
NoRow ==
  [code |-> Null, type |-> Null, status |-> Null, email |-> Null,
   expiresAt |-> NullDate, verifyKey |-> Null,
   usedAt |-> NullDate, usedOrderId |-> Null,
   reservedPrizeId |-> Null, reservationExpiresAt |-> NullDate,
   createdAt |-> NullDate]

\* findUnique({where: {id}}) returned a row
Exists(ticket) == ticket # NoRow

\* SQL comparison of a nullable timestamp: false on NULL
DateLt(d, n) == d # NullDate /\ d < n
DateGt(d, n) == d # NullDate /\ d > n

\* findUnique({ where: { code } })
FindByCode(code) == {t \in TicketIds : tickets[t].code = code}

\* --------------------------------------------------------------- tokens
\* jwt.sign(payload, secret, {expiresIn}): the payload with its time of issue
\* and its deadline, under the signature of the secret
jwtSign(payload, secret, expiresIn) ==
  [form |-> "jwt", payload |-> payload, iat |-> now, exp |-> now + expiresIn,
   sig |-> secret]

\* jwt.verify(token, secret): the payload, or the error it throws
jwtVerify(token, secret) ==
  IF token.form # "jwt"
    THEN [ok |-> FALSE, name |-> "JsonWebTokenError", message |-> "jwt malformed"]
  ELSE IF token.sig # secret
    THEN [ok |-> FALSE, name |-> "JsonWebTokenError", message |-> "invalid signature"]
  ELSE IF now >= token.exp
    THEN [ok |-> FALSE, name |-> "TokenExpiredError", message |-> "jwt expired"]
  ELSE [ok |-> TRUE, payload |-> token.payload]

\* payload.<name>; a claim the payload does not carry reads as undefined
Claim(payload, name) == IF name \in DOMAIN payload THEN payload[name] ELSE Null

\* a request body without a token
MissingToken == [form |-> "absent"]
\* a token that is not a JSON web token at all
MalformedToken == [form |-> "garbage"]

\* buildReservedPrizesFromTicket(ticket)
buildReservedPrizesFromTicket(ticket) ==
  IF ticket.reservedPrizeId # Null /\ ticket.reservationExpiresAt # NullDate
  THEN << [prizeId |-> ticket.reservedPrizeId, status |-> ticket.status,
           reservationExpiresAt |-> ticket.reservationExpiresAt] >>
  ELSE << >>

\* the payload of the token a storefront route reissues
TokenPayload(ticketId, email, reservedPrizes) ==
  [ticketId |-> ticketId, email |-> email, reservedPrizes |-> reservedPrizes]

\* signToken with the lifetime of the RedeemCode token
signToken_RedeemRouteExpiry(payload) ==
  jwtSign(payload, JWT_SECRET, REDEEM_ROUTE_TOKEN_EXPIRY_SECONDS)

\* signToken(payload)
signToken(payload) == jwtSign(payload, JWT_SECRET, REDEEM_TOKEN_EXPIRY_SECONDS)

\* a response without a token
NoTok == [form |-> "absent"]

\* ------------------------------------------------------------- requests
\* the form fields of an administrative request; none on a storefront request
NoForm == [code |-> Null, type |-> Null, status |-> Null, rows |-> << >>]

IdleReq ==
  [op |-> "none", pc |-> "idle", ticketId |-> Null, email |-> Null,
   prizeId |-> Null, now |-> NullDate, snap |-> << >>, caught |-> "none",
   out |-> "none", tok |-> NoTok, form |-> NoForm, prizeVariantIds |-> {}]

Free(r) == reqs[r].pc \in {"idle", "done"}

\* a request that is received and runs up to its next awaited statement
Begin(r, op, pc, ticketId, email, prizeId, nw, snap) ==
  reqs' = [reqs EXCEPT ![r] =
             [op |-> op, pc |-> pc, ticketId |-> ticketId, email |-> email,
              prizeId |-> prizeId, now |-> nw, snap |-> snap, caught |-> "none",
              out |-> "none", tok |-> NoTok, form |-> NoForm,
              prizeVariantIds |-> {}]]

\* a request that is received and answered without awaiting the store again
Answer(r, op, ticketId, email, prizeId, out, tok) ==
  reqs' = [reqs EXCEPT ![r] =
             [op |-> op, pc |-> "done", ticketId |-> ticketId, email |-> email,
              prizeId |-> prizeId, now |-> NullDate, snap |-> << >>,
              caught |-> "none", out |-> out, tok |-> tok, form |-> NoForm,
              prizeVariantIds |-> {}]]

\* a request that is received and answered from the catch block around
\* jwt.verify; `caught` is the error the block caught
Catch(r, op, prizeId, err, out) ==
  reqs' = [reqs EXCEPT ![r] =
             [op |-> op, pc |-> "done", ticketId |-> Null, email |-> Null,
              prizeId |-> prizeId, now |-> NullDate, snap |-> << >>,
              caught |-> err.message, out |-> out, tok |-> NoTok, form |-> NoForm,
              prizeVariantIds |-> {}]]

\* a running request moves to its next statement
Goto(r, pc) == reqs' = [reqs EXCEPT ![r].pc = pc]

\* a running request returns its response
Return(r, out, tok) ==
  reqs' = [reqs EXCEPT ![r].pc = "done", ![r].now = NullDate,
                       ![r].snap = << >>, ![r].out = out, ![r].tok = tok]

\* ------------------------------------------------------------- Init
Init ==
  /\ tickets = [t \in TicketIds |-> NewTicket(CodeOf(t), TypeOf(t), 0)]
  /\ now = 0
  /\ reqs = [r \in ReqIds |-> IdleReq]
  /\ tokens = {}
  /\ redeemedPrize = [t \in TicketIds |-> Null]

\* the wall clock advances
Tick ==
  /\ now < MaxTime
  /\ now' = now + 1
  /\ UNCHANGED <<tickets, reqs, tokens, redeemedPrize>>

\* ------------------------------------------------- RedeemCode (redeem.$)
\* RedeemFind with the status check weakened to reject disabled tickets only
RedeemFind_RejectsOnlyDisabled(r, sig, code, email) ==
  /\ Free(r)
  /\ UNCHANGED <<tickets, now, tokens, redeemedPrize>>
  /\ IF ~sig THEN Answer(r, "redeem", Null, email, Null, "InvalidSignature", NoTok)
     ELSE IF code = Null THEN Answer(r, "redeem", Null, email, Null, "CodeRequired", NoTok)
     ELSE IF email = Null THEN Answer(r, "redeem", Null, email, Null, "EmailRequired", NoTok)
     ELSE IF FindByCode(code) = {}
       THEN Answer(r, "redeem", Null, email, Null, "InvalidCode", NoTok)
     ELSE LET id == CHOOSE t \in FindByCode(code) : TRUE IN
       IF tickets[id].status = "DISABLED"
       THEN Answer(r, "redeem", id, email, Null, "AlreadyUsedOrReserved", NoTok)
       ELSE Begin(r, "redeem", "update", id, email, Null, NullDate, << >>)

\* request received; the transaction's findUnique({code}) and status check
RedeemFind(r, sig, code, email) ==
  /\ Free(r)
  /\ UNCHANGED <<tickets, now, tokens, redeemedPrize>>
  /\ IF ~sig THEN Answer(r, "redeem", Null, email, Null, "InvalidSignature", NoTok)
     ELSE IF code = Null THEN Answer(r, "redeem", Null, email, Null, "CodeRequired", NoTok)
     ELSE IF email = Null THEN Answer(r, "redeem", Null, email, Null, "EmailRequired", NoTok)
     ELSE IF FindByCode(code) = {}
       THEN Answer(r, "redeem", Null, email, Null, "InvalidCode", NoTok)
     ELSE LET id == CHOOSE t \in FindByCode(code) : TRUE IN
       IF tickets[id].status # "ACTIVE"
       THEN Answer(r, "redeem", id, email, Null, "AlreadyUsedOrReserved", NoTok)
       ELSE Begin(r, "redeem", "update", id, email, Null, NullDate, << >>)

\* the payload redeem.$ signs and returns
RedeemPayload(ticket, email, expiresAt) ==
  [verifyKey |-> ticket.verifyKey, ticketType |-> ticket.type,
   email |-> email, expireTime |-> expiresAt,
   reservedPrizes |->
     IF ticket.reservedPrizeId # Null
     THEN << [prizeId |-> ticket.reservedPrizeId, status |-> ticket.status,
              reservationExpiresAt |-> ticket.reservationExpiresAt] >>
     ELSE << >>]

\* crypto.randomBytes(16).toString("hex"): a key that no row carries yet
FreshNonces == {k \in Nonces : \A t \in TicketIds : tickets[t].verifyKey # k}

\* RedeemUpdate that drops the hold of the ticket it binds
RedeemUpdate_ClearsHold(r, verifyKey) ==
  /\ reqs[r].op = "redeem" /\ reqs[r].pc = "update"
  /\ LET id == reqs[r].ticketId
         expiresAt == now + REDEEM_SESSION_WINDOW
         updatedTicket == [tickets[id] EXCEPT !.status = "RESERVED",
                                              !.expiresAt = expiresAt,
                                              !.email = reqs[r].email,
                                              !.verifyKey = verifyKey,
                                              !.reservedPrizeId = Null,
                                              !.reservationExpiresAt = NullDate]
     IN IF ~Exists(tickets[id])
          THEN UNCHANGED tickets /\ Return(r, "Error", NoTok)
          ELSE /\ tickets' = [tickets EXCEPT ![id] = updatedTicket]
               /\ Return(r, "Success",
                         jwtSign(RedeemPayload(updatedTicket, reqs[r].email, expiresAt),
                                 JWT_SECRET, REDEEM_ROUTE_TOKEN_EXPIRY_SECONDS))
  /\ UNCHANGED <<now, tokens, redeemedPrize>>

\* the transaction's update({where: {id}}), commit and response
RedeemUpdate(r, verifyKey) ==
  /\ reqs[r].op = "redeem" /\ reqs[r].pc = "update"
  /\ LET id == reqs[r].ticketId
         expiresAt == now + REDEEM_SESSION_WINDOW
         updatedTicket == [tickets[id] EXCEPT !.status = "RESERVED",
                                              !.expiresAt = expiresAt,
                                              !.email = reqs[r].email,
                                              !.verifyKey = verifyKey]
     IN IF ~Exists(tickets[id])
          THEN UNCHANGED tickets /\ Return(r, "Error", NoTok)
          ELSE /\ tickets' = [tickets EXCEPT ![id] = updatedTicket]
               /\ Return(r, "Success",
                         jwtSign(RedeemPayload(updatedTicket, reqs[r].email, expiresAt),
                                 JWT_SECRET, REDEEM_ROUTE_TOKEN_EXPIRY_SECONDS))
  /\ UNCHANGED <<now, tokens, redeemedPrize>>

\* ------------------------- SelectPrize, add-to-cart (email.server.ts action)
\* SweepRow that clears the expired reservation of a disabled row as well
SweepRow_IgnoresStatus(row, asOf) ==
  IF DateLt(row.reservationExpiresAt, asOf)
  THEN [row EXCEPT !.reservedPrizeId = Null, !.reservationExpiresAt = NullDate]
  ELSE row

\* updateMany: clear expired reservations of rows whose status is not DISABLED
SweepRow(row, asOf) ==
  IF row.status # "DISABLED" /\ DateLt(row.reservationExpiresAt, asOf)
  THEN [row EXCEPT !.reservedPrizeId = Null, !.reservationExpiresAt = NullDate]
  ELSE row

ClearExpired(store, asOf) == [t \in TicketIds |-> SweepRow(store[t], asOf)]

\* CartSweep that clears the expired reservations before it looks at the request
CartSweep_SweepsFirst(r, token, prizeId) ==
  /\ Free(r)
  /\ UNCHANGED <<now, tokens, redeemedPrize>>
  /\ tickets' = ClearExpired(tickets, now)
  /\ IF token.form = "absent"
       THEN Answer(r, "cart", Null, Null, prizeId, "TokenRequired", NoTok)
     ELSE IF prizeId = Null
       THEN Answer(r, "cart", Null, Null, prizeId, "PrizeRequired", NoTok)
     ELSE IF ~jwtVerify(token, JWT_SECRET).ok
       THEN Catch(r, "cart", prizeId, jwtVerify(token, JWT_SECRET), "InvalidToken")
     ELSE LET payload  == jwtVerify(token, JWT_SECRET).payload
              ticketId == Claim(payload, "ticketId")
              email    == Claim(payload, "email") IN
       IF ticketId = Null \/ email = Null
         THEN Answer(r, "cart", Null, Null, prizeId, "InvalidTokenPayload", NoTok)
         ELSE Begin(r, "cart", "find", ticketId, email, prizeId, now, << >>)

\* request received, token verified, `now` taken, expired reservations cleared
CartSweep(r, token, prizeId) ==
  /\ Free(r)
  /\ UNCHANGED <<now, tokens, redeemedPrize>>
  /\ IF token.form = "absent"
       THEN Answer(r, "cart", Null, Null, prizeId, "TokenRequired", NoTok)
            /\ UNCHANGED tickets
     ELSE IF prizeId = Null
       THEN Answer(r, "cart", Null, Null, prizeId, "PrizeRequired", NoTok)
            /\ UNCHANGED tickets
     ELSE IF ~jwtVerify(token, JWT_SECRET).ok
       THEN Catch(r, "cart", prizeId, jwtVerify(token, JWT_SECRET), "InvalidToken")
            /\ UNCHANGED tickets
     ELSE LET payload  == jwtVerify(token, JWT_SECRET).payload
              ticketId == Claim(payload, "ticketId")
              email    == Claim(payload, "email") IN
       IF ticketId = Null \/ email = Null
         THEN Answer(r, "cart", Null, Null, prizeId, "InvalidTokenPayload", NoTok)
              /\ UNCHANGED tickets
         ELSE /\ tickets' = ClearExpired(tickets, now)
              /\ Begin(r, "cart", "find", ticketId, email, prizeId, now, << >>)

\* findUnique({id}); then the email check and the used check
CartFind(r) ==
  /\ reqs[r].op = "cart" /\ reqs[r].pc = "find"
  /\ UNCHANGED <<tickets, now, tokens, redeemedPrize>>
  /\ LET ticket == tickets[reqs[r].ticketId]
         updatedToken == signToken(TokenPayload(reqs[r].ticketId, reqs[r].email,
                                     buildReservedPrizesFromTicket(ticket)))
     IN IF ~Exists(ticket)
          THEN Return(r, "NotFound", NoTok)
        ELSE IF ticket.email # reqs[r].email
          THEN Return(r, "EmailMismatch", updatedToken)
        ELSE IF ticket.usedAt # NullDate \/ ticket.usedOrderId # Null
          THEN Return(r, "TicketUsed", updatedToken)
        ELSE reqs' = [reqs EXCEPT ![r].pc = "inCart",
                                  ![r].snap = buildReservedPrizesFromTicket(ticket)]

\* InCartRows without the comparison of the deadline to the current time
InCartRows_IgnoresExpiry(prizeId, asOf) ==
  {t \in TicketIds : tickets[t].reservedPrizeId = prizeId}

\* findFirst({reservedPrizeId: prizeId, reservationExpiresAt: {gt: now}})
InCartRows(prizeId, asOf) ==
  {t \in TicketIds : /\ tickets[t].reservedPrizeId = prizeId
                     /\ DateGt(tickets[t].reservationExpiresAt, asOf)}

CartInCart(r) ==
  /\ reqs[r].op = "cart" /\ reqs[r].pc = "inCart"
  /\ UNCHANGED <<tickets, now, tokens, redeemedPrize>>
  /\ IF InCartRows(reqs[r].prizeId, reqs[r].now) # {}
       THEN Return(r, "InCart",
                   signToken(TokenPayload(reqs[r].ticketId, reqs[r].email, reqs[r].snap)))
       ELSE Goto(r, "sold")

\* findFirst({reservedPrizeId: prizeId, usedAt: {not: null}})
AlreadySoldRows(prizeId) ==
  {t \in TicketIds : /\ tickets[t].reservedPrizeId = prizeId
                     /\ tickets[t].usedAt # NullDate}

CartSold(r) ==
  /\ reqs[r].op = "cart" /\ reqs[r].pc = "sold"
  /\ UNCHANGED <<tickets, now, tokens, redeemedPrize>>
  /\ IF AlreadySoldRows(reqs[r].prizeId) # {}
       THEN Return(r, "Sold",
                   signToken(TokenPayload(reqs[r].ticketId, reqs[r].email, reqs[r].snap)))
       ELSE Goto(r, "update")

\* CartUpdate with the window of the claim site
CartUpdate_ClaimWindow(r) ==
  /\ reqs[r].op = "cart" /\ reqs[r].pc = "update"
  /\ IF ~Exists(tickets[reqs[r].ticketId])
       THEN UNCHANGED tickets /\ Return(r, "Error", NoTok)
       ELSE /\ tickets' = [tickets EXCEPT
                  ![reqs[r].ticketId].reservedPrizeId = reqs[r].prizeId,
                  ![reqs[r].ticketId].reservationExpiresAt = now + CLAIM_RESERVATION_WINDOW]
            /\ Return(r, "Success", NoTok)
  /\ UNCHANGED <<now, tokens, redeemedPrize>>

\* update({where: {id}, data: {reservedPrizeId, reservationExpiresAt}})
CartUpdate(r) ==
  /\ reqs[r].op = "cart" /\ reqs[r].pc = "update"
  /\ IF ~Exists(tickets[reqs[r].ticketId])
       THEN UNCHANGED tickets /\ Return(r, "Error", NoTok)
       ELSE /\ tickets' = [tickets EXCEPT
                  ![reqs[r].ticketId].reservedPrizeId = reqs[r].prizeId,
                  ![reqs[r].ticketId].reservationExpiresAt = now + CART_RESERVATION_WINDOW]
            /\ Return(r, "Success", NoTok)
  /\ UNCHANGED <<now, tokens, redeemedPrize>>

\* ------------------------------- SelectPrize, claim (redeem.claim.$ action)
\* ClaimFind that tells the caller when the token it rejects had expired
ClaimFind_TellsExpired(r, token, prizeId) ==
  /\ Free(r)
  /\ UNCHANGED <<tickets, now, tokens, redeemedPrize>>
  /\ IF token.form = "absent"
       THEN Answer(r, "claim", Null, Null, prizeId, "TokenRequired", NoTok)
     ELSE IF prizeId = Null
       THEN Answer(r, "claim", Null, Null, prizeId, "PrizeRequired", NoTok)
     ELSE IF ~jwtVerify(token, JWT_SECRET).ok
       THEN Catch(r, "claim", prizeId, jwtVerify(token, JWT_SECRET),
                  IF jwtVerify(token, JWT_SECRET).name = "TokenExpiredError"
                  THEN "TokenExpired" ELSE "InvalidToken")
     ELSE LET payload  == jwtVerify(token, JWT_SECRET).payload
              ticketId == Claim(payload, "ticketId")
              email    == Claim(payload, "email") IN
       IF ticketId = Null \/ email = Null
         THEN Answer(r, "claim", Null, Null, prizeId, "InvalidTokenPayload", NoTok)
       ELSE LET ticket == tickets[ticketId] IN
         IF ~Exists(ticket)
           THEN Answer(r, "claim", ticketId, email, prizeId, "NotFound", NoTok)
         ELSE IF ticket.email # email
           THEN Answer(r, "claim", ticketId, email, prizeId, "EmailMismatch", NoTok)
         ELSE IF ticket.usedAt # NullDate \/ ticket.usedOrderId # Null
           THEN Answer(r, "claim", ticketId, email, prizeId, "TicketUsed", NoTok)
         ELSE IF ticket.reservedPrizeId # Null /\ DateGt(ticket.reservationExpiresAt, now)
           THEN Answer(r, "claim", ticketId, email, prizeId, "InCart", NoTok)
         ELSE Begin(r, "claim", "update", ticketId, email, prizeId, NullDate, << >>)

\* request received, token verified, findUnique({id}) and the checks on the row
ClaimFind(r, token, prizeId) ==
  /\ Free(r)
  /\ UNCHANGED <<tickets, now, tokens, redeemedPrize>>
  /\ IF token.form = "absent"
       THEN Answer(r, "claim", Null, Null, prizeId, "TokenRequired", NoTok)
     ELSE IF prizeId = Null
       THEN Answer(r, "claim", Null, Null, prizeId, "PrizeRequired", NoTok)
     ELSE IF ~jwtVerify(token, JWT_SECRET).ok
       THEN Catch(r, "claim", prizeId, jwtVerify(token, JWT_SECRET), "InvalidToken")
     ELSE LET payload  == jwtVerify(token, JWT_SECRET).payload
              ticketId == Claim(payload, "ticketId")
              email    == Claim(payload, "email") IN
       IF ticketId = Null \/ email = Null
         THEN Answer(r, "claim", Null, Null, prizeId, "InvalidTokenPayload", NoTok)
       ELSE LET ticket == tickets[ticketId] IN
         IF ~Exists(ticket)
           THEN Answer(r, "claim", ticketId, email, prizeId, "NotFound", NoTok)
         ELSE IF ticket.email # email
           THEN Answer(r, "claim", ticketId, email, prizeId, "EmailMismatch", NoTok)
         ELSE IF ticket.usedAt # NullDate \/ ticket.usedOrderId # Null
           THEN Answer(r, "claim", ticketId, email, prizeId, "TicketUsed", NoTok)
         ELSE IF ticket.reservedPrizeId # Null /\ DateGt(ticket.reservationExpiresAt, now)
           THEN Answer(r, "claim", ticketId, email, prizeId, "InCart", NoTok)
         ELSE Begin(r, "claim", "update", ticketId, email, prizeId, NullDate, << >>)

\* update({where: {id}, data: {reservedPrizeId, reservationExpiresAt}})
ClaimUpdate(r) ==
  /\ reqs[r].op = "claim" /\ reqs[r].pc = "update"
  /\ IF ~Exists(tickets[reqs[r].ticketId])
       THEN UNCHANGED tickets /\ Return(r, "Error", NoTok)
       ELSE /\ tickets' = [tickets EXCEPT
                  ![reqs[r].ticketId].reservedPrizeId = reqs[r].prizeId,
                  ![reqs[r].ticketId].reservationExpiresAt = now + CLAIM_RESERVATION_WINDOW]
            /\ Return(r, "Success", NoTok)
  /\ UNCHANGED <<now, tokens, redeemedPrize>>

\* -------------------------------------------- ReleaseHold (remove-from-cart)
\* ReleaseFind that answers an error when the ticket does not hold the prize
ReleaseFind_NotHeldIsError(r, token, prizeId) ==
  /\ Free(r)
  /\ UNCHANGED <<tickets, now, tokens, redeemedPrize>>
  /\ IF token.form = "absent"
       THEN Answer(r, "release", Null, Null, prizeId, "TokenRequired", NoTok)
     ELSE IF prizeId = Null
       THEN Answer(r, "release", Null, Null, prizeId, "PrizeRequired", NoTok)
     ELSE IF ~jwtVerify(token, JWT_SECRET).ok
       THEN Catch(r, "release", prizeId, jwtVerify(token, JWT_SECRET), "InvalidToken")
     ELSE LET payload  == jwtVerify(token, JWT_SECRET).payload
              ticketId == Claim(payload, "ticketId")
              email    == Claim(payload, "email") IN
       IF ticketId = Null
         THEN Answer(r, "release", Null, Null, prizeId, "InvalidTokenPayload", NoTok)
       ELSE LET ticket == tickets[ticketId] IN
         IF ~Exists(ticket)
           THEN Answer(r, "release", ticketId, email, prizeId, "NotFound", NoTok)
         ELSE IF ticket.reservedPrizeId = prizeId
           THEN Begin(r, "release", "update", ticketId, email, prizeId, NullDate, << >>)
           ELSE Answer(r, "release", ticketId, email, prizeId, "NotHeld", NoTok)

\* request received, token verified, findUnique({id})
ReleaseFind(r, token, prizeId) ==
  /\ Free(r)
  /\ UNCHANGED <<tickets, now, tokens, redeemedPrize>>
  /\ IF token.form = "absent"
       THEN Answer(r, "release", Null, Null, prizeId, "TokenRequired", NoTok)
     ELSE IF prizeId = Null
       THEN Answer(r, "release", Null, Null, prizeId, "PrizeRequired", NoTok)
     ELSE IF ~jwtVerify(token, JWT_SECRET).ok
       THEN Catch(r, "release", prizeId, jwtVerify(token, JWT_SECRET), "InvalidToken")
     ELSE LET payload  == jwtVerify(token, JWT_SECRET).payload
              ticketId == Claim(payload, "ticketId")
              email    == Claim(payload, "email") IN
       IF ticketId = Null
         THEN Answer(r, "release", Null, Null, prizeId, "InvalidTokenPayload", NoTok)
       ELSE LET ticket == tickets[ticketId] IN
         IF ~Exists(ticket)
           THEN Answer(r, "release", ticketId, email, prizeId, "NotFound", NoTok)
         ELSE IF ticket.reservedPrizeId = prizeId
           THEN Begin(r, "release", "update", ticketId, email, prizeId, NullDate, << >>)
           ELSE Answer(r, "release", ticketId, email, prizeId, "Success",
                       signToken(TokenPayload(ticketId, email,
                                              buildReservedPrizesFromTicket(ticket))))

\* ReleaseUpdate that empties the prize of the hold and keeps its deadline
ReleaseUpdate_KeepsDeadline(r) ==
  /\ reqs[r].op = "release" /\ reqs[r].pc = "update"
  /\ LET id == reqs[r].ticketId
         ticketForToken == [tickets[id] EXCEPT !.reservedPrizeId = Null]
     IN IF ~Exists(tickets[id])
          THEN UNCHANGED tickets /\ Return(r, "Error", NoTok)
          ELSE /\ tickets' = [tickets EXCEPT ![id] = ticketForToken]
               /\ Return(r, "Success",
                         signToken(TokenPayload(id, reqs[r].email,
                                                buildReservedPrizesFromTicket(ticketForToken))))
  /\ UNCHANGED <<now, tokens, redeemedPrize>>

\* update({where: {id}, data: {reservedPrizeId: null, reservationExpiresAt: null}})
ReleaseUpdate(r) ==
  /\ reqs[r].op = "release" /\ reqs[r].pc = "update"
  /\ LET id == reqs[r].ticketId
         ticketForToken == [tickets[id] EXCEPT !.reservedPrizeId = Null,
                                               !.reservationExpiresAt = NullDate]
     IN IF ~Exists(tickets[id])
          THEN UNCHANGED tickets /\ Return(r, "Error", NoTok)
          ELSE /\ tickets' = [tickets EXCEPT ![id] = ticketForToken]
               /\ Return(r, "Success",
                         signToken(TokenPayload(id, reqs[r].email,
                                                buildReservedPrizesFromTicket(ticketForToken))))
  /\ UNCHANGED <<now, tokens, redeemedPrize>>

\* ------------------------------------------------- Logout (redeem.logout)
\* LogoutFind that also compares the token's email with the ticket's
LogoutFind_ChecksEmail(r, token) ==
  /\ Free(r)
  /\ UNCHANGED <<tickets, now, tokens, redeemedPrize>>
  /\ IF token.form = "absent"
       THEN Answer(r, "logout", Null, Null, Null, "TokenRequired", NoTok)
     ELSE IF ~jwtVerify(token, JWT_SECRET).ok
       THEN Catch(r, "logout", Null, jwtVerify(token, JWT_SECRET), "InvalidToken")
     ELSE LET payload  == jwtVerify(token, JWT_SECRET).payload
              ticketId == Claim(payload, "ticketId") IN
       IF ticketId = Null
         THEN Answer(r, "logout", Null, Null, Null, "InvalidToken", NoTok)
       ELSE IF ~Exists(tickets[ticketId])
         THEN Answer(r, "logout", ticketId, Claim(payload, "email"), Null,
                     "InvalidToken", NoTok)
       ELSE IF tickets[ticketId].email # Claim(payload, "email")
         THEN Answer(r, "logout", ticketId, Claim(payload, "email"), Null,
                     "EmailMismatch", NoTok)
         ELSE Begin(r, "logout", "update", ticketId, Claim(payload, "email"), Null,
                    NullDate, << >>)

\* request received, token verified, findUnique({id})
LogoutFind(r, token) ==
  /\ Free(r)
  /\ UNCHANGED <<tickets, now, tokens, redeemedPrize>>
  /\ IF token.form = "absent"
       THEN Answer(r, "logout", Null, Null, Null, "TokenRequired", NoTok)
     ELSE IF ~jwtVerify(token, JWT_SECRET).ok
       THEN Catch(r, "logout", Null, jwtVerify(token, JWT_SECRET), "InvalidToken")
     ELSE LET payload  == jwtVerify(token, JWT_SECRET).payload
              ticketId == Claim(payload, "ticketId") IN
       IF ticketId = Null
         THEN Answer(r, "logout", Null, Null, Null, "InvalidToken", NoTok)
       ELSE IF ~Exists(tickets[ticketId])
         THEN Answer(r, "logout", ticketId, Claim(payload, "email"), Null,
                     "InvalidToken", NoTok)
         ELSE Begin(r, "logout", "update", ticketId, Claim(payload, "email"), Null,
                    NullDate, << >>)

\* LogoutUpdate that ends the session but leaves the hold in place
LogoutUpdate_KeepsHold(r) ==
  /\ reqs[r].op = "logout" /\ reqs[r].pc = "update"
  /\ IF ~Exists(tickets[reqs[r].ticketId])
       THEN UNCHANGED tickets
       ELSE tickets' = [tickets EXCEPT ![reqs[r].ticketId] =
                [@ EXCEPT !.email = Null, !.expiresAt = NullDate]]
  /\ Return(r, IF Exists(tickets[reqs[r].ticketId]) THEN "Success" ELSE "Error", NoTok)
  /\ UNCHANGED <<now, tokens, redeemedPrize>>

\* LogoutUpdate that resets the redemption record together with the session
LogoutUpdate_ResetsUsed(r) ==
  /\ reqs[r].op = "logout" /\ reqs[r].pc = "update"
  /\ IF ~Exists(tickets[reqs[r].ticketId])
       THEN UNCHANGED tickets
       ELSE tickets' = [tickets EXCEPT ![reqs[r].ticketId] =
                [@ EXCEPT !.email = Null, !.expiresAt = NullDate,
                          !.reservedPrizeId = Null, !.reservationExpiresAt = NullDate,
                          !.usedAt = NullDate, !.usedOrderId = Null]]
  /\ Return(r, IF Exists(tickets[reqs[r].ticketId]) THEN "Success" ELSE "Error", NoTok)
  /\ UNCHANGED <<now, tokens, redeemedPrize>>

\* LogoutUpdate that deletes the row instead of clearing the session
LogoutUpdate_DeletesRow(r) ==
  /\ reqs[r].op = "logout" /\ reqs[r].pc = "update"
  /\ tickets' = [tickets EXCEPT ![reqs[r].ticketId] = NoRow]
  /\ Return(r, IF Exists(tickets[reqs[r].ticketId]) THEN "Success" ELSE "Error", NoTok)
  /\ UNCHANGED <<now, tokens, redeemedPrize>>

\* LogoutUpdate that drops the hold and the session window but keeps the email
LogoutUpdate_KeepsEmail(r) ==
  /\ reqs[r].op = "logout" /\ reqs[r].pc = "update"
  /\ IF ~Exists(tickets[reqs[r].ticketId])
       THEN UNCHANGED tickets
       ELSE tickets' = [tickets EXCEPT ![reqs[r].ticketId] =
                [@ EXCEPT !.expiresAt = NullDate,
                          !.reservedPrizeId = Null, !.reservationExpiresAt = NullDate]]
  /\ Return(r, IF Exists(tickets[reqs[r].ticketId]) THEN "Success" ELSE "Error", NoTok)
  /\ UNCHANGED <<now, tokens, redeemedPrize>>

\* update({where: {id}, data: {email, expiresAt, reservedPrizeId,
\*                             reservationExpiresAt: null}})
LogoutUpdate(r) ==
  /\ reqs[r].op = "logout" /\ reqs[r].pc = "update"
  /\ IF ~Exists(tickets[reqs[r].ticketId])
       THEN UNCHANGED tickets
       ELSE tickets' = [tickets EXCEPT ![reqs[r].ticketId] =
                [@ EXCEPT !.email = Null, !.expiresAt = NullDate,
                          !.reservedPrizeId = Null, !.reservationExpiresAt = NullDate]]
  /\ Return(r, IF Exists(tickets[reqs[r].ticketId]) THEN "Success" ELSE "Error", NoTok)
  /\ UNCHANGED <<now, tokens, redeemedPrize>>

\* ------------------------------------- administrative edit (ticket_edit)
TicketEdit(id, code, typeRaw, statusVal) ==
  /\ LET existing == tickets[id]
         codeUpd == IF code # Null /\ code # existing.code /\ FindByCode(code) # {}
                    THEN "duplicate"
                    ELSE IF code # Null THEN code ELSE existing.code
         typeUpd == IF typeRaw \in {"Platinum", "Golden"} THEN typeRaw ELSE existing.type
         statusUpd == IF statusVal \in {"ACTIVE", "RESERVED", "DISABLED", "ACTIVATE"}
                      THEN statusVal ELSE existing.status
     IN tickets' = IF ~Exists(existing) \/ codeUpd = "duplicate" THEN tickets
                   ELSE [tickets EXCEPT ![id] =
                          [@ EXCEPT !.code = codeUpd, !.type = typeUpd,
                                    !.status = statusUpd]]
  /\ UNCHANGED <<now, reqs, tokens, redeemedPrize>>

\* ------------------------------ collaborators outside the redemption routes
\* the session token handed out once an email is bound to the ticket
IssueSession(t) ==
  /\ tickets[t].email # Null
  /\ tokens' = tokens \cup {[ticketId |-> t, email |-> tickets[t].email]}
  /\ UNCHANGED <<tickets, now, reqs, redeemedPrize>>

\* isEligibleToFinalize(ticketId, prizeId)
isEligibleToFinalize(t, p) ==
  /\ tickets[t].status = "RESERVED"
  /\ tickets[t].usedAt = NullDate /\ tickets[t].usedOrderId = Null
  /\ tickets[t].reservedPrizeId = p
  /\ DateGt(tickets[t].reservationExpiresAt, now)
  /\ \A u \in TicketIds \ {t} :
       /\ ~(tickets[u].reservedPrizeId = p /\ DateGt(tickets[u].reservationExpiresAt, now))
       /\ redeemedPrize[u] # p

\* finalize(ticketId, prizeId, orderReference), by the checkout collaborator
Finalize(t, p, order) ==
  /\ isEligibleToFinalize(t, p)
  /\ tickets' = [tickets EXCEPT ![t].usedAt = now, ![t].usedOrderId = order]
  /\ redeemedPrize' = [redeemedPrize EXCEPT ![t] = p]
  /\ UNCHANGED <<now, reqs, tokens>>

\* ------------------------- pre-checkout check of one prize variant
\* request received, token verified, findUnique({id}) and the email check
PreCheckFind(r, token, prizeVariantId) ==
  /\ Free(r)
  /\ UNCHANGED <<tickets, now, tokens, redeemedPrize>>
  /\ IF token.form = "absent"
       THEN Answer(r, "precheck", Null, Null, prizeVariantId, "TokenRequired", NoTok)
     ELSE IF ~jwtVerify(token, JWT_SECRET).ok
       THEN Catch(r, "precheck", prizeVariantId, jwtVerify(token, JWT_SECRET), "InvalidToken")
     ELSE LET payload  == jwtVerify(token, JWT_SECRET).payload
              ticketId == Claim(payload, "ticketId")
              email    == Claim(payload, "email") IN
       IF ticketId = Null \/ email = Null
         THEN Answer(r, "precheck", Null, Null, prizeVariantId, "InvalidToken", NoTok)
       ELSE LET ticket == tickets[ticketId] IN
         IF ~Exists(ticket) \/ ticket.email # email
           THEN Answer(r, "precheck", ticketId, email, prizeVariantId,
                       "InvalidToken", NoTok)
         ELSE IF prizeVariantId = Null
           THEN Answer(r, "precheck", ticketId, email, prizeVariantId, "Success",
                       signToken(TokenPayload(ticketId, email,
                                              buildReservedPrizesFromTicket(ticket))))
         ELSE Begin(r, "precheck", "pending", ticketId, email, prizeVariantId,
                    NullDate, buildReservedPrizesFromTicket(ticket))

\* OtherPendingRows without the exclusion of the acting ticket
OtherPendingRows_IncludesOwn(prizeVariantId, asOf, ticketId) ==
  {t \in TicketIds :
     /\ tickets[t].reservedPrizeId = prizeVariantId
     /\ DateGt(tickets[t].reservationExpiresAt, asOf)}

\* findFirst({reservedPrizeId, reservationExpiresAt: {gt: now}, id: {not: ticketId}})
OtherPendingRows(prizeVariantId, asOf, ticketId) ==
  {t \in TicketIds \ {ticketId} :
     /\ tickets[t].reservedPrizeId = prizeVariantId
     /\ DateGt(tickets[t].reservationExpiresAt, asOf)}

PreCheckPending(r) ==
  /\ reqs[r].op = "precheck" /\ reqs[r].pc = "pending"
  /\ UNCHANGED <<tickets, now, tokens, redeemedPrize>>
  /\ LET updatedToken == signToken(TokenPayload(reqs[r].ticketId, reqs[r].email,
                                                reqs[r].snap))
     IN IF OtherPendingRows(reqs[r].prizeId, now, reqs[r].ticketId) # {}
          THEN Return(r, "OtherPending", updatedToken)
          ELSE Return(r, "Success", updatedToken)

\* ------------------------- pre-checkout check of a cart (redeem.pre-checkout)
\* what the storefront answers to the cart query: the prize variants in the
\* cart, or a failure
CartAnswers == [ok : BOOLEAN, ids : SUBSET Prizes]

\* request received, token verified, findUnique({id}) and the email check,
\* getCartPrizeVariantIds
PreCartFind(r, cartToken, token, fetched) ==
  /\ Free(r)
  /\ UNCHANGED <<tickets, now, tokens, redeemedPrize>>
  /\ IF cartToken = Null
       THEN Answer(r, "precart", Null, Null, Null, "CartTokenRequired", NoTok)
     ELSE IF token.form = "absent"
       THEN Answer(r, "precart", Null, Null, Null, "TokenRequired", NoTok)
     ELSE IF ~jwtVerify(token, JWT_SECRET).ok
       THEN Catch(r, "precart", Null, jwtVerify(token, JWT_SECRET), "InvalidToken")
     ELSE LET payload  == jwtVerify(token, JWT_SECRET).payload
              ticketId == Claim(payload, "ticketId")
              email    == Claim(payload, "email") IN
       IF ticketId = Null \/ email = Null
         THEN Answer(r, "precart", Null, Null, Null, "InvalidToken", NoTok)
       ELSE LET ticket == tickets[ticketId] IN
         IF ~Exists(ticket) \/ ticket.email # email
           THEN Answer(r, "precart", ticketId, email, Null, "InvalidToken", NoTok)
         ELSE IF ~fetched.ok
           THEN Answer(r, "precart", ticketId, email, Null, "Error", NoTok)
         ELSE IF fetched.ids = {}
           THEN Answer(r, "precart", ticketId, email, Null, "Success",
                       signToken(TokenPayload(ticketId, email,
                                              buildReservedPrizesFromTicket(ticket))))
         ELSE reqs' = [reqs EXCEPT ![r] =
                [IdleReq EXCEPT !.op = "precart", !.pc = "pending",
                                !.ticketId = ticketId, !.email = email,
                                !.snap = buildReservedPrizesFromTicket(ticket),
                                !.prizeVariantIds = fetched.ids]]

\* findFirst({reservedPrizeId: {in: prizeVariantIds},
\*            reservationExpiresAt: {gt: now}, id: {not: ticketId}})
OtherPendingIn(prizeVariantIds, asOf, ticketId) ==
  {t \in TicketIds \ {ticketId} :
     /\ tickets[t].reservedPrizeId \in prizeVariantIds
     /\ DateGt(tickets[t].reservationExpiresAt, asOf)}

PreCartPending(r) ==
  /\ reqs[r].op = "precart" /\ reqs[r].pc = "pending"
  /\ UNCHANGED <<tickets, now, tokens, redeemedPrize>>
  /\ LET updatedToken == signToken(TokenPayload(reqs[r].ticketId, reqs[r].email,
                                                reqs[r].snap))
     IN IF OtherPendingIn(reqs[r].prizeVariantIds, now, reqs[r].ticketId) # {}
          THEN Return(r, "OtherPending", updatedToken)
          ELSE Return(r, "Success", updatedToken)

\* =====================================================================
\* Specifications.  Each one is the system restricted to one flow, started
\* in a state the system reaches from the state after import.

\* the customer behind request slot r, and the tokens it can present in the
\* flows below: an unexpired session token for each identity it was issued
\* (the snapshot a token carries is a cache that no route reads)
TicketOf(r) == IF r = "r1" THEN "t1" ELSE "t2"
TokensOf(r) ==
  {signToken(TokenPayload(k.ticketId, k.email, << >>)) :
     k \in {k \in tokens : k.ticketId = TicketOf(r)}}

\* ---------------------------------------------------------------------
\* The hold flow on its own: both tickets have been redeemed (t1 by a@x,
\* t2 by b@x, at time 0) and each customer has its session token; requests
\* of the two customers select, claim and release prizes concurrently while
\* the clock advances and the checkout collaborator finalizes.
InitHold ==
  /\ tickets = [t \in TicketIds |->
       [NewTicket(CodeOf(t), TypeOf(t), 0) EXCEPT
          !.status = "RESERVED",
          !.email = IF t = "t1" THEN "a@x" ELSE "b@x",
          !.expiresAt = REDEEM_SESSION_WINDOW,
          !.verifyKey = "k1"]]
  /\ now = 0
  /\ reqs = [r \in ReqIds |-> IdleReq]
  /\ tokens = {[ticketId |-> "t1", email |-> "a@x"],
               [ticketId |-> "t2", email |-> "b@x"]}
  /\ redeemedPrize = [t \in TicketIds |-> Null]

NextHold ==
  \/ Tick
  \/ \E r \in ReqIds : \E token \in TokensOf(r), prizeId \in Prizes :
       CartSweep(r, token, prizeId)
  \/ \E r \in ReqIds : CartFind(r)
  \/ \E r \in ReqIds : CartInCart(r)
  \/ \E r \in ReqIds : CartSold(r)
  \/ \E r \in ReqIds : CartUpdate(r)
  \/ \E r \in ReqIds : \E token \in TokensOf(r), prizeId \in Prizes :
       ClaimFind(r, token, prizeId)
  \/ \E r \in ReqIds : ClaimUpdate(r)
  \/ \E r \in ReqIds : \E token \in TokensOf(r), prizeId \in Prizes :
       ReleaseFind(r, token, prizeId)
  \/ \E r \in ReqIds : ReleaseUpdate(r)

SpecHold == InitHold /\ [][NextHold]_vars

\* the hold flow together with the checkout collaborator that finalizes
NextSold ==
  \/ NextHold
  \/ \E t \in TicketIds, p \in Prizes, order \in Orders : Finalize(t, p, order)

SpecSold == InitHold /\ [][NextSold]_vars

\* ---------------------------------------------------------------------
\* The whole life of one ticket: every route and the administrative edit,
\* used by one customer at a time, from the state after import.  The customer
\* presents its session tokens, and to SelectPrize also the token that its
\* last RedeemCode returned.
LifeReqs    == {"r1"}
LifeTickets == {"t1"}

NextLife ==
  \/ Tick
  \/ \E r \in LifeReqs, email \in Emails :
       RedeemFind(r, TRUE, CodeOf(TicketOf(r)), email)
  \/ \E r \in LifeReqs : RedeemUpdate(r, "k1")
  \/ \E r \in LifeReqs : \E token \in TokensOf(r), prizeId \in Prizes :
       CartSweep(r, token, prizeId)
  \/ \E r \in LifeReqs : CartFind(r)
  \/ \E r \in LifeReqs : CartInCart(r)
  \/ \E r \in LifeReqs : CartSold(r)
  \/ \E r \in LifeReqs : CartUpdate(r)
  \/ \E r \in LifeReqs : \E token \in TokensOf(r), prizeId \in Prizes :
       ClaimFind(r, token, prizeId)
  \/ \E r \in LifeReqs : ClaimUpdate(r)
  \/ \E r \in LifeReqs, prizeId \in Prizes :
       /\ reqs[r].op = "redeem" /\ reqs[r].out = "Success"
       /\ CartSweep(r, reqs[r].tok, prizeId)
  \/ \E r \in LifeReqs, prizeId \in Prizes :
       /\ reqs[r].op = "redeem" /\ reqs[r].out = "Success"
       /\ ClaimFind(r, reqs[r].tok, prizeId)
  \/ \E r \in LifeReqs : \E token \in TokensOf(r), prizeId \in Prizes :
       ReleaseFind(r, token, prizeId)
  \/ \E r \in LifeReqs : ReleaseUpdate(r)
  \/ \E r \in LifeReqs : \E token \in TokensOf(r) : LogoutFind(r, token)
  \/ \E r \in LifeReqs : LogoutUpdate(r)
  \/ \E r \in LifeReqs : \E token \in TokensOf(r), prizeVariantId \in Prizes \cup {Null} :
       PreCheckFind(r, token, prizeVariantId)
  \/ \E r \in LifeReqs : PreCheckPending(r)
  \/ \E t \in LifeTickets, statusVal \in Statuses :
       TicketEdit(t, tickets[t].code, tickets[t].type, statusVal)
  \/ \E t \in LifeTickets : IssueSession(t)
  \/ \E t \in LifeTickets, p \in Prizes, order \in Orders : Finalize(t, p, order)

SpecLife == Init /\ [][NextLife]_vars

\* ---------------------------------------------------------------------
\* RedeemCode on its own: two customers submit codes and emails concurrently
\* while the administrator edits ticket statuses.
EmailOf(r) == IF r = "r1" THEN "a@x" ELSE "b@x"

NextRedeem ==
  \/ Tick
  \/ \E r \in ReqIds, code \in Codes : RedeemFind(r, TRUE, code, EmailOf(r))
  \/ \E r \in ReqIds : RedeemUpdate(r, "k1")
  \/ \E t \in TicketIds, statusVal \in Statuses :
       TicketEdit(t, tickets[t].code, tickets[t].type, statusVal)

SpecRedeem == Init /\ [][NextRedeem]_vars

\* ---------------------------------------------------------------------
\* One customer with two storefront tabs: both request slots act for ticket
\* t1 with its session token, concurrently, from the state of InitHold.
NextSession ==
  \/ Tick
  \/ \E r \in ReqIds : \E token \in TokensOf("r1"), prizeId \in Prizes :
       CartSweep(r, token, prizeId)
  \/ \E r \in ReqIds : CartFind(r)
  \/ \E r \in ReqIds : CartInCart(r)
  \/ \E r \in ReqIds : CartSold(r)
  \/ \E r \in ReqIds : CartUpdate(r)
  \/ \E r \in ReqIds : \E token \in TokensOf("r1"), prizeId \in Prizes :
       ClaimFind(r, token, prizeId)
  \/ \E r \in ReqIds : ClaimUpdate(r)
  \/ \E r \in ReqIds : \E token \in TokensOf("r1"), prizeId \in Prizes :
       ReleaseFind(r, token, prizeId)
  \/ \E r \in ReqIds : ReleaseUpdate(r)
  \/ \E r \in ReqIds : \E token \in TokensOf("r1") : LogoutFind(r, token)
  \/ \E r \in ReqIds : LogoutUpdate(r)

SpecSession == InitHold /\ [][NextSession]_vars

\* ---------------------------------------------------------------------
\* The token flow: one customer (ticket t1) calls every route that takes a
\* token.  It presents an unexpired session token, the token its last call
\* returned (which ages as the clock advances), either of them with a foreign
\* signature, a string that is no token, or no token at all.
TickToken ==
  /\ now < MaxTokenTime
  /\ now' = now + 1
  /\ UNCHANGED <<tickets, reqs, tokens, redeemedPrize>>

Forged(token) == [token EXCEPT !.sig = "forged"]

HeldTokens(r) ==
  TokensOf(r) \cup (IF reqs[r].tok.form = "jwt" THEN {reqs[r].tok} ELSE {})

Presented(r) ==
  HeldTokens(r) \cup {Forged(k) : k \in HeldTokens(r)}
               \cup {MalformedToken, MissingToken}

NextToken ==
  \/ TickToken
  \/ \E r \in LifeReqs : \E token \in Presented(r), prizeId \in Prizes :
       CartSweep(r, token, prizeId)
  \/ \E r \in LifeReqs : CartFind(r)
  \/ \E r \in LifeReqs : CartInCart(r)
  \/ \E r \in LifeReqs : CartSold(r)
  \/ \E r \in LifeReqs : CartUpdate(r)
  \/ \E r \in LifeReqs : \E token \in Presented(r), prizeId \in Prizes :
       ClaimFind(r, token, prizeId)
  \/ \E r \in LifeReqs : ClaimUpdate(r)
  \/ \E r \in LifeReqs : \E token \in Presented(r), prizeId \in Prizes :
       ReleaseFind(r, token, prizeId)
  \/ \E r \in LifeReqs : ReleaseUpdate(r)
  \/ \E r \in LifeReqs : \E token \in Presented(r) : LogoutFind(r, token)
  \/ \E r \in LifeReqs : LogoutUpdate(r)
  \/ \E r \in LifeReqs : \E token \in Presented(r), prizeVariantId \in Prizes \cup {Null} :
       PreCheckFind(r, token, prizeVariantId)
  \/ \E r \in LifeReqs : PreCheckPending(r)

SpecToken == InitHold /\ [][NextToken]_vars

\* ---------------------------------------------------------------------
\* One request against any store: the table is in one of the states the
\* routes and the administrator can leave it in (t1 removed, never redeemed,
\* bound to a@x or logged out; either ticket redeemed or not, disabled or
\* not, holding no prize or a prize whose deadline has passed, is now, or is
\* still ahead), and one storefront request runs from its first statement to
\* its response while the administrator may remove t1.
StoredRow(t, status, email, used, holdPrize, deadline) ==
  [NewTicket(CodeOf(t), TypeOf(t), 0) EXCEPT
     !.status = status,
     !.email = email,
     !.expiresAt = IF email = Null THEN NullDate ELSE REDEEM_SESSION_WINDOW,
     !.verifyKey = IF email # Null \/ used THEN "k1" ELSE Null,
     !.usedAt = IF used THEN 0 ELSE NullDate,
     !.usedOrderId = IF used THEN "o1" ELSE Null,
     !.reservedPrizeId = holdPrize,
     !.reservationExpiresAt = deadline]

NoHold == [prize |-> Null, deadline |-> NullDate]

\* the hold columns of a row: both empty, or a prize with its deadline
Holds == {NoHold} \cup {[prize |-> p, deadline |-> d] : p \in Prizes, d \in 0..MaxTime}

RowsOfT1 ==
  {NoRow}
  \cup {StoredRow("t1", status, "a@x", used, h.prize, h.deadline) :
          status \in Statuses, used \in BOOLEAN, h \in Holds}
  \cup {StoredRow("t1", status, Null, used, Null, NullDate) :
          status \in Statuses, used \in BOOLEAN}

RowsOfT2 ==
  {StoredRow("t2", status, "b@x", used, h.prize, h.deadline) :
     status \in {"RESERVED", "DISABLED"}, used \in BOOLEAN, h \in Holds}

\* a redeemed row still carries a hold only if the hold outlived the order
WellFormedRow(row) ==
  row.usedAt = NullDate \/ row.reservedPrizeId = Null \/ row.reservationExpiresAt > row.usedAt

InitOne ==
  /\ tickets \in {store \in [TicketIds -> RowsOfT1 \cup RowsOfT2] :
                    /\ store["t1"] \in RowsOfT1 /\ store["t2"] \in RowsOfT2
                    /\ \A t \in TicketIds : WellFormedRow(store[t])}
  /\ now = 1
  /\ reqs = [r \in ReqIds |-> IdleReq]
  /\ tokens = {}
  /\ redeemedPrize = [t \in TicketIds |->
       IF tickets[t].usedAt = NullDate THEN Null
       ELSE IF tickets[t].reservedPrizeId # Null THEN tickets[t].reservedPrizeId
       ELSE "p1"]

\* ticket_remove: delete({where: {id}}).catch(() => null)
TicketRemove(id) ==
  /\ tickets' = [tickets EXCEPT ![id] = NoRow]
  /\ UNCHANGED <<now, reqs, tokens, redeemedPrize>>

\* the session token of ticket t1 under the given email
TokenOne(email) == signToken(TokenPayload("t1", email, << >>))

Idle(r) == reqs[r].pc = "idle"

\* what a SelectPrize request may carry as its token: the session token
\* under either email, the same with a foreign signature, a string that is
\* no token, or nothing
PresentedOne ==
  {TokenOne(email) : email \in Emails}
  \cup {[TokenOne("a@x") EXCEPT !.sig = "forged"], MalformedToken, MissingToken}

NextOne ==
  \/ \E r \in LifeReqs, email \in Emails :
       Idle(r) /\ RedeemFind(r, TRUE, CodeOf("t1"), email)
  \/ \E r \in LifeReqs, verifyKey \in FreshNonces : RedeemUpdate(r, verifyKey)
  \/ \E r \in LifeReqs, token \in PresentedOne, prizeId \in Prizes \cup {Null} :
       Idle(r) /\ CartSweep(r, token, prizeId)
  \/ \E r \in LifeReqs : CartFind(r)
  \/ \E r \in LifeReqs : CartInCart(r)
  \/ \E r \in LifeReqs : CartSold(r)
  \/ \E r \in LifeReqs : CartUpdate(r)
  \/ \E r \in LifeReqs, token \in PresentedOne, prizeId \in Prizes \cup {Null} :
       Idle(r) /\ ClaimFind(r, token, prizeId)
  \/ \E r \in LifeReqs : ClaimUpdate(r)
  \/ \E r \in LifeReqs, email \in Emails, prizeId \in Prizes :
       Idle(r) /\ ReleaseFind(r, TokenOne(email), prizeId)
  \/ \E r \in LifeReqs : ReleaseUpdate(r)
  \/ \E r \in LifeReqs, email \in Emails : Idle(r) /\ LogoutFind(r, TokenOne(email))
  \/ \E r \in LifeReqs : LogoutUpdate(r)
  \/ \E r \in LifeReqs, email \in Emails, prizeVariantId \in Prizes :
       Idle(r) /\ PreCheckFind(r, TokenOne(email), prizeVariantId)
  \/ \E r \in LifeReqs : PreCheckPending(r)
  \/ \E r \in LifeReqs, email \in Emails, fetched \in CartAnswers :
       Idle(r) /\ PreCartFind(r, "cart", TokenOne(email), fetched)
  \/ \E r \in LifeReqs : PreCartPending(r)
  \/ \E t \in LifeTickets : Exists(tickets[t]) /\ TicketRemove(t)

SpecOne == InitOne /\ [][NextOne]_vars

\* ---------------------------------------------------------------------
\* Ticket administration (app.tickets.import.tsx action).  The forms of the
\* administrator are requests like those of the storefront: each awaited
\* prisma statement is a step, and the statements of two forms submitted at
\* the same time interleave.
RawCodes == {"c1", " c1 ", "c2", ""}

\* String(formData.get("code") ?? "").trim().slice(0, 500)
TrimCode(raw) == IF raw = " c1 " THEN "c1" ELSE raw

\* the unique index TicketCode_code_key without its uniqueness
TicketCode_code_key_NotUnique(id, code) == TRUE

\* the unique index TicketCode_code_key admits code on the row id: no other
\* row carries it
TicketCode_code_key(id, code) ==
  \A t \in TicketIds \ {id} : tickets[t].code # code

\* a request that is received with its form and runs up to its next statement
BeginForm(r, op, pc, ticketId, form) ==
  reqs' = [reqs EXCEPT ![r] = [IdleReq EXCEPT !.op = op, !.pc = pc,
                                              !.ticketId = ticketId, !.form = form]]

\* a request that is received with its form and answered at once
AnswerForm(r, op, ticketId, form, out) ==
  reqs' = [reqs EXCEPT ![r] = [IdleReq EXCEPT !.op = op, !.pc = "done",
                                              !.ticketId = ticketId, !.form = form,
                                              !.out = out]]

\* ticket_add: the form is read, findUnique({code})
AddFind(r, rawCode, typeRaw) ==
  /\ Free(r)
  /\ UNCHANGED <<tickets, now, tokens, redeemedPrize>>
  /\ LET code == TrimCode(rawCode)
         type == IF typeRaw = "Platinum" THEN "Platinum" ELSE "Golden"
         form == [NoForm EXCEPT !.code = code, !.type = type]
     IN IF code = "" THEN AnswerForm(r, "add", Null, form, "CodeRequired")
        ELSE IF FindByCode(code) # {} THEN AnswerForm(r, "add", Null, form, "Duplicate")
        ELSE BeginForm(r, "add", "create", Null, form)

\* ticket_add: create({data: {code, type, status: "ACTIVE"}}); the insert
\* fails on the unique index and the action throws
AddCreate(r) ==
  /\ reqs[r].op = "add" /\ reqs[r].pc = "create"
  /\ UNCHANGED <<now, tokens, redeemedPrize>>
  /\ \E id \in TicketIds :
       /\ ~Exists(tickets[id])
       /\ IF TicketCode_code_key(id, reqs[r].form.code)
            THEN /\ tickets' = [tickets EXCEPT ![id] =
                       NewTicket(reqs[r].form.code, reqs[r].form.type, now)]
                 /\ Return(r, "Success", NoTok)
            ELSE UNCHANGED tickets /\ Return(r, "Error", NoTok)

\* ticket_edit: the form is read, findUnique({id}), the updates are collected
\* up to the lookup of a changed code
EditFind(r, id, rawCode, typeRaw, statusVal) ==
  /\ Free(r)
  /\ UNCHANGED <<tickets, now, tokens, redeemedPrize>>
  /\ LET code == TrimCode(rawCode)
         existing == tickets[id]
         updates == [NoForm EXCEPT
                       !.code = IF code # "" THEN code ELSE Null,
                       !.type = IF typeRaw \in {"Platinum", "Golden"} THEN typeRaw ELSE Null,
                       !.status = IF statusVal \in Statuses THEN statusVal ELSE Null]
     IN IF ~Exists(existing) THEN AnswerForm(r, "edit", id, updates, "NotFound")
        ELSE IF code # "" /\ code # existing.code
          THEN BeginForm(r, "edit", "duplicate", id, updates)
        ELSE IF updates = NoForm THEN AnswerForm(r, "edit", id, updates, "Success")
        ELSE BeginForm(r, "edit", "update", id, updates)

\* ticket_edit: findUnique({code}) for the changed code
EditDuplicate(r) ==
  /\ reqs[r].op = "edit" /\ reqs[r].pc = "duplicate"
  /\ UNCHANGED <<tickets, now, tokens, redeemedPrize>>
  /\ IF FindByCode(reqs[r].form.code) # {}
       THEN Return(r, "Duplicate", NoTok)
       ELSE Goto(r, "update")

\* ticket_edit: update({where: {id}, data: updates}); the update fails on a
\* removed row and on the unique index, and the action throws
EditUpdate(r) ==
  /\ reqs[r].op = "edit" /\ reqs[r].pc = "update"
  /\ UNCHANGED <<now, tokens, redeemedPrize>>
  /\ LET id == reqs[r].ticketId
         updates == reqs[r].form
         written == [tickets[id] EXCEPT
                       !.code = IF updates.code # Null THEN updates.code ELSE @,
                       !.type = IF updates.type # Null THEN updates.type ELSE @,
                       !.status = IF updates.status # Null THEN updates.status ELSE @]
     IN IF ~Exists(tickets[id]) \/ ~TicketCode_code_key(id, written.code)
          THEN UNCHANGED tickets /\ Return(r, "Error", NoTok)
          ELSE tickets' = [tickets EXCEPT ![id] = written] /\ Return(r, "Success", NoTok)

\* CSV import: the file is read and parsed into its rows
ImportParse(r, rows) ==
  /\ Free(r)
  /\ UNCHANGED <<tickets, now, tokens, redeemedPrize>>
  /\ IF rows = << >>
       THEN AnswerForm(r, "import", Null, NoForm, "EmptyCsv")
       ELSE BeginForm(r, "import", "find", Null, [NoForm EXCEPT !.rows = rows])

\* CSV import: findUnique({code}) of the next row; a row whose code exists is
\* skipped
ImportFind(r) ==
  /\ reqs[r].op = "import" /\ reqs[r].pc = "find"
  /\ UNCHANGED <<tickets, now, tokens, redeemedPrize>>
  /\ IF reqs[r].form.rows = << >> THEN Return(r, "Success", NoTok)
     ELSE IF FindByCode(Head(reqs[r].form.rows)) # {}
       THEN reqs' = [reqs EXCEPT ![r].form.rows = Tail(@)]
       ELSE Goto(r, "create")

\* CSV import: create of the next row; an insert that fails on the unique
\* index is caught and the row is skipped
ImportCreate(r) ==
  /\ reqs[r].op = "import" /\ reqs[r].pc = "create"
  /\ UNCHANGED <<now, tokens, redeemedPrize>>
  /\ reqs' = [reqs EXCEPT ![r].pc = "find", ![r].form.rows = Tail(@)]
  /\ \E id \in TicketIds :
       /\ ~Exists(tickets[id])
       /\ IF TicketCode_code_key(id, Head(reqs[r].form.rows))
            THEN tickets' = [tickets EXCEPT ![id] =
                   NewTicket(Head(reqs[r].form.rows), "Golden", now)]
            ELSE UNCHANGED tickets

\* the CSV files the administrator uploads
CsvFiles == {<<"c1">>, <<"c1", "c2">>, <<"c2", "c2">>}

\* Two forms of the administrator at a time, on a table that starts empty.
InitAdmin ==
  /\ tickets = [t \in TicketIds |-> NoRow]
  /\ now = 0
  /\ reqs = [r \in ReqIds |-> IdleReq]
  /\ tokens = {}
  /\ redeemedPrize = [t \in TicketIds |-> Null]

NextAdmin ==
  \/ \E r \in ReqIds, rawCode \in RawCodes : AddFind(r, rawCode, "Golden")
  \/ \E r \in ReqIds : AddCreate(r)
  \/ \E r \in ReqIds, id \in TicketIds, rawCode \in RawCodes, statusVal \in {"", "DISABLED"} :
       EditFind(r, id, rawCode, "", statusVal)
  \/ \E r \in ReqIds : EditDuplicate(r)
  \/ \E r \in ReqIds : EditUpdate(r)
  \/ \E r \in ReqIds, rows \in CsvFiles : ImportParse(r, rows)
  \/ \E r \in ReqIds : ImportFind(r)
  \/ \E r \in ReqIds : ImportCreate(r)
  \/ \E t \in TicketIds : Exists(tickets[t]) /\ TicketRemove(t)

SpecAdmin == InitAdmin /\ [][NextAdmin]_vars

\* =====================================================================
\* Properties.

\* ticket t has an unexpired hold on prize p
Unexpired(t, p) ==
  tickets[t].reservedPrizeId = p /\ DateGt(tickets[t].reservationExpiresAt, now)

Holders(p) == {t \in TicketIds : Unexpired(t, p)}

\* in this step request slot r receives a new request of kind op
Received(r, op) == Free(r) /\ reqs'[r] # reqs[r] /\ reqs'[r].op = op

\* in this step request r passes its last check and goes on to its write
PassesChecks(r) == reqs[r].pc # "update" /\ reqs'[r].pc = "update"

\* in this step request r performs its write and returns
Writes(r) == reqs[r].pc = "update" /\ reqs'[r].pc = "done"

\* C1: in every reachable state, every prize has at most one ticket with an
\* unexpired hold on it.
C1_AtMostOneHolder == \A p \in Prizes : Cardinality(Holders(p)) <= 1

\* C2: of two add-to-cart requests of different tickets for the same prize
\* that both end with the prize held and unexpired, at most one reports
\* success (the other one saw the winner's hold and wrote nothing).
C2_ExactlyOneSucceeds ==
  \A r1, r2 \in ReqIds :
    ( /\ r1 # r2
      /\ reqs[r1].op = "cart" /\ reqs[r2].op = "cart"
      /\ reqs[r1].pc = "done" /\ reqs[r2].pc = "done"
      /\ reqs[r1].prizeId = reqs[r2].prizeId
      /\ reqs[r1].ticketId # reqs[r2].ticketId
      /\ reqs[r1].ticketId # Null /\ reqs[r2].ticketId # Null
      /\ Unexpired(reqs[r1].ticketId, reqs[r1].prizeId)
      /\ Unexpired(reqs[r2].ticketId, reqs[r2].prizeId) )
    => ~(reqs[r1].out = "Success" /\ reqs[r2].out = "Success")

\* some ticket has been redeemed with prize p
Redeemed(p) == \E t \in TicketIds : redeemedPrize[t] = p

\* C3: once a ticket is redeemed with a prize, no SelectPrize request for that
\* prize (at either call site) passes its checks: none goes on to write a hold.
C3_SoldStaysSold ==
  [][\A r \in ReqIds :
       (PassesChecks(r) /\ reqs'[r].op \in {"cart", "claim"})
         => ~Redeemed(reqs'[r].prizeId)]_vars

\* C4: once usedAt is set on a ticket, no step changes the ticket's usedAt or
\* usedOrderId.
C4_RedeemedAtPermanent ==
  [][\A t \in TicketIds :
       tickets[t].usedAt # NullDate
         => /\ tickets'[t].usedAt = tickets[t].usedAt
            /\ tickets'[t].usedOrderId = tickets[t].usedOrderId
            /\ tickets'[t].usedOrderId # Null]_vars

\* a redeemed ticket on which the administrative edit and Logout have acted
C4_Witness ==
  \E t \in TicketIds :
    /\ tickets[t].usedAt # NullDate /\ tickets[t].usedOrderId # Null
    /\ tickets[t].email = Null /\ tickets[t].status = "DISABLED"
    /\ tickets[t].reservedPrizeId = Null

\* the time as of which request r, at the step it takes now, compares deadlines
AsOf(r) ==
  IF Free(r) THEN now
  ELSE IF reqs[r].op = "cart" THEN reqs[r].now ELSE now

HoldWindow(op) ==
  IF op = "cart" THEN CART_RESERVATION_WINDOW ELSE CLAIM_RESERVATION_WINDOW

\* request r, at the step it takes now, acts for a ticket T2 that is eligible
\* for prize p while another ticket T1 still carries a hold on p whose
\* deadline has passed
ExpiredHoldCase(r) ==
  LET T2 == reqs'[r].ticketId
      p  == reqs'[r].prizeId
  IN /\ T2 # Null
     /\ tickets[T2].email = reqs'[r].email
     /\ tickets[T2].usedAt = NullDate /\ tickets[T2].usedOrderId = Null
     /\ ~DateGt(tickets[T2].reservationExpiresAt, AsOf(r))
     /\ ~Redeemed(p)
     /\ \E T1 \in TicketIds \ {T2} :
          /\ tickets[T1].reservedPrizeId = p
          /\ tickets[T1].reservationExpiresAt # NullDate
          /\ tickets[T1].reservationExpiresAt <= AsOf(r)
     /\ \A T1 \in TicketIds \ {T2} :
          ~(tickets[T1].reservedPrizeId = p
            /\ DateGt(tickets[T1].reservationExpiresAt, AsOf(r)))

\* C5: a SelectPrize(P) by an eligible ticket T2 is never rejected at a step
\* at which the only hold on P is another ticket's hold whose deadline has
\* passed, and its write places T2's hold on P for the call site's window:
\* nothing has to release or sweep the expired hold first.
C5_ExpiredHoldDoesNotBlock ==
  [][\A r \in ReqIds :
       /\ ( /\ reqs'[r] # reqs[r]
            /\ reqs'[r].op \in {"cart", "claim"}
            /\ ExpiredHoldCase(r) )
            => reqs'[r].out \in {"none", "Success"}
       /\ (Writes(r) /\ reqs[r].op \in {"cart", "claim"})
            => /\ reqs'[r].out = "Success"
               /\ tickets'[reqs[r].ticketId].reservedPrizeId = reqs[r].prizeId
               /\ tickets'[reqs[r].ticketId].reservationExpiresAt
                    = now + HoldWindow(reqs[r].op)]_vars

\* T2 selected P successfully, after the deadline of T1's hold on P, while
\* T1's row still carries that expired hold
C5_Witness ==
  \E r \in ReqIds, T1 \in TicketIds :
    /\ reqs[r].op \in {"cart", "claim"} /\ reqs[r].pc = "done"
    /\ reqs[r].out = "Success"
    /\ T1 # reqs[r].ticketId
    /\ Unexpired(reqs[r].ticketId, reqs[r].prizeId)
    /\ tickets[T1].reservedPrizeId = reqs[r].prizeId
    /\ DateLt(tickets[T1].reservationExpiresAt, now)
    /\ tickets[reqs[r].ticketId].reservationExpiresAt - HoldWindow(reqs[r].op)
         > tickets[T1].reservationExpiresAt

\* C6: a SelectPrize(P1) by T2 never passes its checks while another ticket
\* holds an unexpired hold on P1, and a completed ReleaseHold(P1) by T1 leaves
\* T1 without a hold on P1 (so that T2's next SelectPrize(P1) finds P1 free).
C6_HeldUntilReleased ==
  [][\A r \in ReqIds :
       /\ (PassesChecks(r) /\ reqs'[r].op \in {"cart", "claim"})
            => \A t \in TicketIds \ {reqs'[r].ticketId} :
                 ~Unexpired(t, reqs'[r].prizeId)
       /\ ( /\ reqs'[r] # reqs[r] /\ reqs'[r].op = "release"
            /\ reqs'[r].pc = "done" /\ reqs'[r].out = "Success" )
            => tickets'[reqs'[r].ticketId].reservedPrizeId # reqs'[r].prizeId]_vars

\* C7: a RedeemCode received for a ticket whose status is RESERVED is answered
\* with the already-used-or-reserved rejection, and no ticket row changes
\* (email, status, session window and verification key stay as they were).
C7_ReservedRejected ==
  [][\A r \in ReqIds :
       ( /\ Received(r, "redeem")
         /\ reqs'[r].ticketId # Null
         /\ tickets[reqs'[r].ticketId].status = "RESERVED" )
       => /\ reqs'[r].pc = "done"
          /\ reqs'[r].out = "AlreadyUsedOrReserved"
          /\ tickets' = tickets]_vars

\* a RedeemCode with a different email was rejected on a ticket that is
\* Reserved and bound to the first email
C7_Witness ==
  \E r \in ReqIds :
    /\ reqs[r].op = "redeem" /\ reqs[r].pc = "done"
    /\ reqs[r].out = "AlreadyUsedOrReserved"
    /\ reqs[r].ticketId # Null
    /\ tickets[reqs[r].ticketId].status = "RESERVED"
    /\ tickets[reqs[r].ticketId].email \notin {Null, reqs[r].email}
    /\ tickets[reqs[r].ticketId].verifyKey # Null

\* C8: a RedeemCode received for a ticket whose usedAt is set is rejected,
\* whatever the ticket's status is.
C8_UsedTicketRejected ==
  [][\A r \in ReqIds :
       ( /\ Received(r, "redeem")
         /\ reqs'[r].ticketId # Null
         /\ tickets[reqs'[r].ticketId].usedAt # NullDate )
       => /\ reqs'[r].pc = "done"
          /\ reqs'[r].out # "Success"]_vars

\* C9: the write of a RedeemCode never rebinds a ticket that another
\* RedeemCode has meanwhile reserved for a different email: of two concurrent
\* calls for one unused code only one succeeds.
C9_RedeemAtomic ==
  [][\A r \in ReqIds :
       (Writes(r) /\ reqs[r].op = "redeem")
       => ~( /\ tickets[reqs[r].ticketId].status = "RESERVED"
             /\ tickets[reqs[r].ticketId].email \notin {Null, reqs[r].email} )]_vars

\* C10: every ReleaseHold(P) with a valid token returns success; when it
\* returns, the ticket has no hold on P; and a ReleaseHold(P) received for a
\* ticket that has no hold on P (as after a first ReleaseHold(P), or when it
\* holds another prize) returns at once and changes nothing in the store.
C10_ReleaseIdempotent ==
  [][\A r \in ReqIds :
       /\ ( /\ reqs'[r] # reqs[r] /\ reqs'[r].op = "release"
            /\ reqs'[r].pc = "done" /\ reqs'[r].ticketId # Null )
            => /\ reqs'[r].out = "Success"
               /\ tickets'[reqs'[r].ticketId].reservedPrizeId # reqs'[r].prizeId
       /\ ( /\ Received(r, "release") /\ reqs'[r].ticketId # Null
            /\ tickets[reqs'[r].ticketId].reservedPrizeId # reqs'[r].prizeId )
            => /\ reqs'[r].pc = "done"
               /\ reqs'[r].out = "Success"
               /\ tickets' = tickets]_vars

\* a ReleaseHold(P) returned success for a ticket that holds another prize,
\* which it still holds
C10_Witness ==
  \E r \in ReqIds :
    /\ reqs[r].op = "release" /\ reqs[r].pc = "done" /\ reqs[r].out = "Success"
    /\ reqs[r].ticketId # Null
    /\ tickets[reqs[r].ticketId].reservedPrizeId \notin {Null, reqs[r].prizeId}
    /\ reqs[r].tok.form = "jwt"
    /\ reqs[r].tok.payload
         = TokenPayload(reqs[r].ticketId, reqs[r].email,
                        buildReservedPrizesFromTicket(tickets[reqs[r].ticketId]))

\* the session, the hold and the hold's deadline of a ticket row are all empty
LoggedOut(row) ==
  /\ row.email = Null /\ row.expiresAt = NullDate
  /\ row.reservedPrizeId = Null /\ row.reservationExpiresAt = NullDate

\* C11: every Logout with a valid token goes on to its write whatever state
\* the ticket is in and returns the same success result; its write leaves the
\* ticket logged out, and on a ticket that is already logged out (as after a
\* first Logout) it changes nothing in the store.
C11_LogoutIdempotent ==
  [][\A r \in ReqIds :
       /\ (Received(r, "logout") /\ reqs'[r].ticketId # Null)
            => reqs'[r].pc = "update"
       /\ (Writes(r) /\ reqs[r].op = "logout")
            => /\ reqs'[r].out = "Success" /\ reqs'[r].tok = NoTok
               /\ LoggedOut(tickets'[reqs[r].ticketId])
               /\ LoggedOut(tickets[reqs[r].ticketId]) => tickets' = tickets]_vars

\* two Logout calls with the same token have both returned success and the
\* ticket is logged out
C11_Witness ==
  /\ \A r \in ReqIds :
       /\ reqs[r].op = "logout" /\ reqs[r].pc = "done" /\ reqs[r].out = "Success"
       /\ reqs[r].ticketId = "t1" /\ reqs[r].email = "a@x"
  /\ LoggedOut(tickets["t1"])

\* C12: no SelectPrize write (at either call site) replaces a hold: when a
\* SelectPrize request writes, its ticket has no unexpired hold on a prize
\* other than the one it selects.
C12_OneHoldPerTicket ==
  [][\A r \in ReqIds :
       (Writes(r) /\ reqs[r].op \in {"cart", "claim"})
         => \A P \in Prizes \ {reqs[r].prizeId} : ~Unexpired(reqs[r].ticketId, P)]_vars

\* C13: the add-to-cart conflict check answers held-elsewhere only when a
\* ticket other than the acting one has an unexpired hold on the prize, and
\* answers sold whenever some ticket has been redeemed with the prize.
C13_ConflictCheck ==
  [][\A r \in ReqIds :
       /\ (reqs[r].op = "cart" /\ reqs[r].pc = "inCart" /\ reqs'[r].out = "InCart")
            => \E t \in TicketIds \ {reqs[r].ticketId} :
                 /\ tickets[t].reservedPrizeId = reqs[r].prizeId
                 /\ DateGt(tickets[t].reservationExpiresAt, reqs[r].now)
       /\ ( /\ reqs[r].op = "cart" /\ reqs[r].pc = "sold" /\ reqs'[r] # reqs[r]
            /\ Redeemed(reqs[r].prizeId) )
            => reqs'[r].out = "Sold"]_vars

\* C14: a SelectPrize (at either call site) that presents the unexpired token
\* of a successful RedeemCode passes the credential checks and acts for the
\* ticket and the email that the RedeemCode bound.
C14_RedeemTokenSelects ==
  [][\A r \in ReqIds, prizeId \in Prizes :
       ( /\ reqs[r].op = "redeem" /\ reqs[r].pc = "done" /\ reqs[r].out = "Success"
         /\ jwtVerify(reqs[r].tok, JWT_SECRET).ok
         /\ \/ CartSweep(r, reqs[r].tok, prizeId)
            \/ ClaimFind(r, reqs[r].tok, prizeId) )
       => /\ reqs'[r].out \notin {"InvalidToken", "InvalidTokenPayload"}
          /\ reqs'[r].ticketId = reqs[r].ticketId
          /\ reqs'[r].email = reqs[r].email]_vars

\* the response of request r, as it stands after this step, carries a signed
\* token whose snapshot is the hold stored on the request's ticket
FreshSnapshot(r) ==
  /\ reqs'[r].tok.form = "jwt"
  /\ reqs'[r].tok.sig = JWT_SECRET
  /\ reqs'[r].tok.iat = now
  /\ reqs'[r].tok.payload.ticketId = reqs'[r].ticketId
  /\ reqs'[r].tok.payload.reservedPrizes
       = buildReservedPrizesFromTicket(tickets'[reqs'[r].ticketId])

\* C15: every SelectPrize (either call site) and every ReleaseHold that
\* returns success returns a token issued at that moment whose snapshot is the
\* ticket's hold as stored after the call.
C15_SuccessReissuesToken ==
  [][\A r \in ReqIds :
       ( /\ reqs'[r] # reqs[r] /\ reqs'[r].pc = "done"
         /\ reqs'[r].op \in {"cart", "claim", "release"}
         /\ reqs'[r].out = "Success" )
       => FreshSnapshot(r)]_vars

\* C16: every SelectPrize (either call site) that fails with email mismatch,
\* ticket already used, prize held elsewhere or prize sold returns a token
\* issued at that moment whose snapshot is the ticket's stored hold.
C16_FailureReissuesToken ==
  [][\A r \in ReqIds :
       ( /\ reqs'[r] # reqs[r] /\ reqs'[r].pc = "done"
         /\ reqs'[r].op \in {"cart", "claim"}
         /\ reqs'[r].out \in {"EmailMismatch", "TicketUsed", "InCart", "Sold"} )
       => FreshSnapshot(r)]_vars

\* request r starts, in this step, one of the routes that take a token
Starts(r, token, prizeId) ==
  \/ CartSweep(r, token, prizeId)
  \/ ClaimFind(r, token, prizeId)
  \/ ReleaseFind(r, token, prizeId)
  \/ LogoutFind(r, token)
  \/ PreCheckFind(r, token, prizeId)

\* C17: at every route, a request whose token is expired, carries a foreign
\* signature or is no token at all ends in the catch block, and every request
\* that ends there gets the same answer (no token, no ticket looked up) and
\* leaves the store as it was.
C17_FailClosed ==
  [][\A r \in LifeReqs :
       /\ \A token \in Presented(r), prizeId \in Prizes :
            ( /\ token.form # "absent" /\ ~jwtVerify(token, JWT_SECRET).ok
              /\ Starts(r, token, prizeId) )
            => reqs'[r].caught = jwtVerify(token, JWT_SECRET).message
       /\ (reqs'[r] # reqs[r] /\ reqs'[r].caught # "none")
            => /\ reqs'[r].pc = "done"
               /\ reqs'[r].out = "InvalidToken"
               /\ reqs'[r].tok = NoTok
               /\ reqs'[r].ticketId = Null
               /\ tickets' = tickets]_vars

\* the claim route rejected a token that the server had signed and that has
\* expired since
C17_Witness ==
  \E r \in ReqIds :
    /\ reqs[r].op = "claim" /\ reqs[r].pc = "done"
    /\ reqs[r].caught = "jwt expired" /\ reqs[r].out = "InvalidToken"

SameButHold(a, b) ==
  [a EXCEPT !.reservedPrizeId = Null, !.reservationExpiresAt = NullDate]
    = [b EXCEPT !.reservedPrizeId = Null, !.reservationExpiresAt = NullDate]

\* C19: no step of a ReleaseHold(P) request changes another ticket or a field
\* of its ticket other than the hold and its deadline; it changes the hold
\* only by clearing both fields, and only when the prize the ticket holds at
\* that moment is P.
C19_ReleaseFrame ==
  [][\A r \in ReqIds :
       ( /\ reqs'[r] # reqs[r] /\ reqs'[r].op = "release"
         /\ reqs'[r].ticketId # Null )
       => LET T == reqs'[r].ticketId
              P == reqs'[r].prizeId
          IN /\ \A t \in TicketIds \ {T} : tickets'[t] = tickets[t]
             /\ SameButHold(tickets'[T], tickets[T])
             /\ tickets[T].reservedPrizeId # P => tickets'[T] = tickets[T]
             /\ tickets'[T] # tickets[T]
                  => /\ tickets'[T].reservedPrizeId = Null
                     /\ tickets'[T].reservationExpiresAt = NullDate]_vars

\* C20: the write of a Logout leaves its ticket without email, session
\* window, hold and hold deadline, and changes neither the ticket's usedAt,
\* usedOrderId, code and type nor any other ticket; the steps of a Logout
\* before its write change nothing in the store.
C20_LogoutFrame ==
  [][\A r \in ReqIds :
       /\ (Received(r, "logout")) => tickets' = tickets
       /\ (Writes(r) /\ reqs[r].op = "logout")
            => LET T == reqs[r].ticketId
               IN /\ LoggedOut(tickets'[T])
                  /\ tickets'[T].usedAt = tickets[T].usedAt
                  /\ tickets'[T].usedOrderId = tickets[T].usedOrderId
                  /\ tickets'[T].code = tickets[T].code
                  /\ tickets'[T].type = tickets[T].type
                  /\ \A t \in TicketIds \ {T} : tickets'[t] = tickets[t]]_vars

\* a Logout has returned on a redeemed ticket: the session and the hold are
\* gone, the redemption record is still there
C20_Witness ==
  \E r \in ReqIds :
    /\ reqs[r].op = "logout" /\ reqs[r].pc = "done" /\ reqs[r].out = "Success"
    /\ LoggedOut(tickets[reqs[r].ticketId])
    /\ tickets[reqs[r].ticketId].usedAt # NullDate
    /\ tickets[reqs[r].ticketId].usedOrderId # Null
    /\ redeemedPrize[reqs[r].ticketId] # Null

\* C21: a RedeemCode request received right after a successful Logout, for
\* the ticket that was logged out, is accepted (goes on to its write) when
\* the ticket is still Reserved and not redeemed, as it would be for an
\* Unused ticket.
C21_RedeemAfterLogout ==
  [][\A r \in ReqIds :
       ( /\ reqs[r].op = "logout" /\ reqs[r].out = "Success"
         /\ Received(r, "redeem")
         /\ reqs'[r].ticketId = reqs[r].ticketId
         /\ tickets[reqs[r].ticketId].status = "RESERVED"
         /\ tickets[reqs[r].ticketId].usedAt = NullDate
         /\ tickets[reqs[r].ticketId].usedOrderId = Null )
       => reqs'[r].pc = "update"]_vars

\* C22: a RedeemCode request for a ticket whose status is ACTIVATE (pending
\* activation) and that is not redeemed is accepted as for an Unused ticket.
C22_PendingActivationRedeems ==
  [][\A r \in ReqIds :
       ( /\ Received(r, "redeem")
         /\ reqs'[r].ticketId # Null
         /\ tickets[reqs'[r].ticketId].status = "ACTIVATE"
         /\ tickets[reqs'[r].ticketId].usedAt = NullDate
         /\ tickets[reqs'[r].ticketId].usedOrderId = Null )
       => reqs'[r].pc = "update"]_vars

\* C23: a step of a storefront request (RedeemCode, SelectPrize at either
\* site, ReleaseHold, Logout) leaves the email, the hold and the status of
\* every ticket whose status is DISABLED as they were.
C23_DisabledUntouched ==
  [][\A t \in TicketIds :
       (reqs' # reqs /\ tickets[t].status = "DISABLED")
       => /\ tickets'[t].email = tickets[t].email
          /\ tickets'[t].reservedPrizeId = tickets[t].reservedPrizeId
          /\ tickets'[t].reservationExpiresAt = tickets[t].reservationExpiresAt
          /\ tickets'[t].status = tickets[t].status]_vars

\* C25: the sweep an add-to-cart request runs at time `now` empties the hold
\* fields of exactly the tickets whose hold deadline lies before `now` and
\* whose status is not DISABLED; every other field of those tickets and
\* every other ticket stay as they were.
C25_SweepFrame ==
  [][\A r \in ReqIds :
       (Received(r, "cart") /\ reqs'[r].pc = "find")
       => \A t \in TicketIds :
            IF /\ tickets[t].reservationExpiresAt # NullDate
               /\ tickets[t].reservationExpiresAt < now
               /\ tickets[t].status # "DISABLED"
            THEN tickets'[t] = [tickets[t] EXCEPT !.reservedPrizeId = Null,
                                                  !.reservationExpiresAt = NullDate]
            ELSE tickets'[t] = tickets[t]]_vars

\* the sweep has run and left the expired hold of a disabled ticket in place
C25_Witness ==
  \E r \in ReqIds, t \in TicketIds :
    /\ reqs[r].op = "cart" /\ reqs[r].pc = "find"
    /\ tickets[t].status = "DISABLED"
    /\ tickets[t].reservedPrizeId # Null
    /\ DateLt(tickets[t].reservationExpiresAt, reqs[r].now)

\* a hold the sweep would clear at time asOf is still stored on row
Sweepable(row, asOf) ==
  row.status # "DISABLED" /\ DateLt(row.reservationExpiresAt, asOf)

\* C26: when an add-to-cart, claim, ReleaseHold or pre-checkout request has
\* verified its token and goes on to read the store, the sweep has run: no
\* ticket that is not disabled is left with a hold whose deadline has passed.
C26_SweepBeforeReads ==
  [][\A r \in ReqIds :
       ( /\ \E op \in {"cart", "claim", "release", "precheck"} : Received(r, op)
         /\ reqs'[r].ticketId # Null )
       => \A t \in TicketIds : ~Sweepable(tickets'[t], now)]_vars

\* C27: no token a route has issued lists, among its reserved prizes, a hold
\* whose deadline had already passed when the token was issued.
C27_NoExpiredHoldInToken ==
  \A r \in ReqIds :
    reqs[r].tok.form = "jwt"
    => \A i \in DOMAIN reqs[r].tok.payload.reservedPrizes :
         ~DateLt(reqs[r].tok.payload.reservedPrizes[i].reservationExpiresAt,
                 reqs[r].tok.iat)

\* C28: the two SelectPrize sites accept the same requests: a claim that
\* passes its checks would pass those of add-to-cart (no ticket holds the
\* prize unexpired, none has been sold it), and an add-to-cart that passes
\* its checks would pass that of the claim (the ticket holds no unexpired
\* prize).
C28_SameTransition ==
  [][\A r \in ReqIds :
       /\ (Received(r, "claim") /\ reqs'[r].pc = "update")
          => /\ InCartRows(reqs'[r].prizeId, now) = {}
             /\ AlreadySoldRows(reqs'[r].prizeId) = {}
       /\ (reqs[r].op = "cart" /\ PassesChecks(r))
          => LET ticket == tickets[reqs[r].ticketId]
             IN ~(ticket.reservedPrizeId # Null
                  /\ DateGt(ticket.reservationExpiresAt, now))]_vars

\* C29: a step of a storefront request (RedeemCode, SelectPrize with its
\* sweep, ReleaseHold, Logout, pre-checkout) creates no row, deletes no row,
\* and leaves the code, the type and the creation time of every row as they
\* were.
C29_IdentityFrame ==
  [][reqs' # reqs
     => \A t \in TicketIds :
          /\ Exists(tickets'[t]) = Exists(tickets[t])
          /\ tickets'[t].code = tickets[t].code
          /\ tickets'[t].type = tickets[t].type
          /\ tickets'[t].createdAt = tickets[t].createdAt]_vars

\* a Logout of a redeemed ticket has written its row, and the row is still
\* there under its code and its creation time
C29_Witness ==
  \E r \in ReqIds :
    /\ reqs[r].op = "logout" /\ reqs[r].out = "Success"
    /\ Exists(tickets[reqs[r].ticketId])
    /\ tickets[reqs[r].ticketId].code = CodeOf(reqs[r].ticketId)
    /\ tickets[reqs[r].ticketId].createdAt = 0
    /\ tickets[reqs[r].ticketId].usedAt # NullDate

\* the row of the ticket a SelectPrize request names
Named(r) == tickets[reqs'[r].ticketId]

\* preconditions of SelectPrize, in the order of the specification
EmailMatches(r) == Named(r).email = reqs'[r].email
NotRedeemed(r)  == Named(r).usedAt = NullDate /\ Named(r).usedOrderId = Null
PrizeFree(r) ==
  \A t \in TicketIds \ {reqs'[r].ticketId} :
    /\ ~Unexpired(t, reqs'[r].prizeId)
    /\ ~(tickets[t].reservedPrizeId = reqs'[r].prizeId /\ tickets[t].usedAt # NullDate)

\* in this step a SelectPrize request of kind op is answered with out
Reports(r, op, out) ==
  reqs'[r].op = op /\ reqs[r].pc # "done" /\ reqs'[r].pc = "done" /\ reqs'[r].out = out

\* C30: the failure a SelectPrize request reports is that of the first
\* failing precondition: EmailMismatch only for a ticket that was found,
\* AlreadyRedeemed only when the email matches as well, held or sold only
\* when the ticket is not redeemed either, and the failure of the ticket's
\* own hold only when, beyond that, no other ticket holds or has been sold
\* the prize.
C30_FirstFailingReported ==
  [][\A r \in ReqIds : \A op \in {"cart", "claim"} :
       /\ Reports(r, op, "EmailMismatch") => Exists(Named(r))
       /\ Reports(r, op, "TicketUsed") => Exists(Named(r)) /\ EmailMatches(r)
       /\ (Reports(r, "cart", "InCart") \/ Reports(r, "cart", "Sold")) /\ Exists(Named(r))
          => EmailMatches(r) /\ NotRedeemed(r)
       /\ Reports(r, "claim", "InCart")
          => Exists(Named(r)) /\ EmailMatches(r) /\ NotRedeemed(r) /\ PrizeFree(r)]_vars

\* C24: in every reachable state no two rows of the table carry the same
\* code, whatever the interleaving of CSV imports, administrative adds,
\* edits and removals.
C24_CodeUnique ==
  \A t, u \in TicketIds :
    (t # u /\ Exists(tickets[t]) /\ Exists(tickets[u]))
    => tickets[t].code # tickets[u].code

\* two forms targeted one code after both had found it free: one wrote it,
\* the other failed on the unique index
C24_Witness ==
  \E r1, r2 \in ReqIds :
    /\ r1 # r2
    /\ reqs[r1].op \in {"add", "edit"} /\ reqs[r2].op \in {"add", "edit"}
    /\ reqs[r1].form.code = reqs[r2].form.code
    /\ reqs[r1].out = "Success" /\ reqs[r2].out = "Error"
    /\ FindByCode(reqs[r1].form.code) # {}

C32_RedeemFailure ==
  [][\A r \in ReqIds :
       ( /\ reqs'[r].op = "redeem" /\ reqs[r].pc # "done" /\ reqs'[r].pc = "done"
         /\ reqs'[r].out # "Success" )
       => /\ reqs'[r].tok.form = "absent"
          /\ tickets' = tickets
          /\ (reqs'[r].ticketId = Null) = (reqs'[r].out \in
                {"InvalidSignature", "CodeRequired", "EmailRequired", "InvalidCode"})
          /\ ( /\ reqs'[r].ticketId # Null
               /\ tickets[reqs'[r].ticketId].status = "DISABLED" )
             => reqs'[r].out \notin {"InvalidCode", "AlreadyUsedOrReserved"}]_vars

\* C33: the write of a successful SelectPrize(P) sets the hold of the acting
\* ticket to P with the deadline of the current time plus 15 minutes at the
\* add-to-cart site and plus 2 hours at the claim site, and changes nothing
\* else in the store; no step of a SelectPrize request changes the unexpired
\* hold of a ticket other than the acting one.
C33_SelectFrame ==
  [][\A r \in ReqIds :
       /\ (reqs[r].op \in {"cart", "claim"} /\ Writes(r) /\ reqs'[r].out = "Success")
          => tickets' = [tickets EXCEPT ![reqs[r].ticketId] =
               [@ EXCEPT !.reservedPrizeId = reqs[r].prizeId,
                         !.reservationExpiresAt =
                            now + (IF reqs[r].op = "cart" THEN Ticks(15) ELSE Ticks(120))]]
       /\ (reqs'[r] # reqs[r] /\ reqs'[r].op \in {"cart", "claim"})
          => \A t \in TicketIds \ {reqs'[r].ticketId} :
               DateGt(tickets[t].reservationExpiresAt, now) => tickets'[t] = tickets[t]]_vars

\* an add-to-cart has just placed its hold of 15 minutes while the other
\* ticket keeps an unexpired hold on another prize
C33_Witness ==
  \E r \in ReqIds, t \in TicketIds :
    /\ reqs[r].op = "cart" /\ reqs[r].out = "Success"
    /\ t # reqs[r].ticketId
    /\ tickets[reqs[r].ticketId].reservedPrizeId = reqs[r].prizeId
    /\ tickets[reqs[r].ticketId].reservationExpiresAt = now + Ticks(15)
    /\ tickets[t].reservedPrizeId \notin {Null, reqs[r].prizeId}
    /\ DateGt(tickets[t].reservationExpiresAt, now)

\* C34: a pre-checkout check (of a prize variant or of a cart) answers that
\* the ticket may proceed only when the ticket is eligible to finalize
\* against each prize checked: it is RESERVED, not redeemed, holds the prize
\* unexpired, and no other ticket holds or has redeemed the prize.
C34_PreCheckEligible ==
  [][\A r \in ReqIds :
       ( /\ reqs'[r].op \in {"precheck", "precart"}
         /\ reqs[r].pc # "done" /\ reqs'[r].pc = "done"
         /\ reqs'[r].out = "Success" )
       => \A p \in Prizes :
            (p = reqs'[r].prizeId \/ p \in reqs'[r].prizeVariantIds)
            => isEligibleToFinalize(reqs'[r].ticketId, p)]_vars

\* C35: the write of a ReleaseHold or Logout request whose token carries an
\* email other than the one the ticket is bound to changes no ticket.
C35_EmailGuardsWrites ==
  [][\A r \in ReqIds :
       ( /\ reqs[r].op \in {"release", "logout"} /\ Writes(r)
         /\ tickets[reqs[r].ticketId].email # reqs[r].email )
       => tickets' = tickets]_vars

\* the hold columns of the row are emptied and nothing else
HoldCleared(old, new) ==
  new = [old EXCEPT !.reservedPrizeId = Null, !.reservationExpiresAt = NullDate]

\* C36: a step of a SelectPrize request other than its successful write
\* changes no ticket when the request is rejected for a missing field or an
\* invalid token, and otherwise changes at most holds whose deadline had
\* passed, by emptying them: the email, the status and the unexpired hold of
\* every ticket stay as they were.
C36_RejectedSelectFrame ==
  [][\A r \in ReqIds :
       ( /\ reqs'[r] # reqs[r] /\ reqs'[r].op \in {"cart", "claim"}
         /\ ~(Writes(r) /\ reqs'[r].out = "Success") )
       => /\ reqs'[r].ticketId = Null => tickets' = tickets
          /\ \A t \in TicketIds :
               \/ tickets'[t] = tickets[t]
               \/ /\ DateLt(tickets[t].reservationExpiresAt, now)
                  /\ HoldCleared(tickets[t], tickets'[t])]_vars

\* an add-to-cart was rejected for its token and the expired hold of a
\* ticket is still stored
C36_Witness ==
  \E r \in ReqIds, t \in TicketIds :
    /\ reqs[r].op = "cart" /\ reqs[r].out = "InvalidToken"
    /\ reqs[r].caught # "none"
    /\ Sweepable(tickets[t], now)

\* C37: in every reachable state the two hold columns of every ticket are
\* both set or both empty.
C37_HoldFieldsTogether ==
  \A t \in TicketIds :
    (tickets[t].reservedPrizeId = Null) = (tickets[t].reservationExpiresAt = NullDate)

\* a ReleaseHold has emptied the hold it found on the ticket, and a later
\* SelectPrize of the other tab has set it again
C37_Witness ==
  \E r1, r2 \in ReqIds :
    /\ reqs[r1].op = "release" /\ reqs[r1].out = "Success"
    /\ reqs[r1].tok.payload.reservedPrizes = << >>
    /\ reqs[r2].op \in {"cart", "claim"} /\ reqs[r2].out = "Success"
    /\ reqs[r2].ticketId = reqs[r1].ticketId
    /\ tickets[reqs[r2].ticketId].reservedPrizeId = reqs[r1].prizeId
    /\ tickets[reqs[r2].ticketId].reservationExpiresAt # NullDate

\* C38: the request that follows a successful Logout of a ticket with a
\* token issued for that ticket before the Logout is rejected if it is a
\* claim or a pre-checkout, an add-to-cart is rejected when it reads the
\* ticket without an email, and no step places a hold on a ticket that is
\* bound to no email.
C38_LogoutEndsSession ==
  [][/\ \A r \in ReqIds :
          /\ ( /\ reqs[r].op = "logout" /\ reqs[r].out = "Success"
               /\ reqs'[r] # reqs[r]
               /\ reqs'[r].op \in {"claim", "precheck"}
               /\ reqs'[r].ticketId = reqs[r].ticketId )
             => reqs'[r].pc = "done" /\ reqs'[r].out \in {"EmailMismatch", "InvalidToken"}
          /\ ( /\ reqs[r].op = "cart" /\ reqs[r].pc = "find"
               /\ reqs'[r] # reqs[r]
               /\ tickets[reqs[r].ticketId].email = Null )
             => reqs'[r].pc = "done" /\ reqs'[r].out = "EmailMismatch"
     /\ \A t \in TicketIds :
          tickets[t].email = Null
          => tickets'[t].reservedPrizeId \in {Null, tickets[t].reservedPrizeId}]_vars

\* after the Logout the customer's token was presented to the claim route
\* and rejected, the ticket being bound to no email and holding nothing
C38_Witness ==
  \E r \in ReqIds :
    /\ reqs[r].op = "claim" /\ reqs[r].out = "EmailMismatch"
    /\ reqs[r].email # Null
    /\ tickets[reqs[r].ticketId].email = Null
    /\ tickets[reqs[r].ticketId].verifyKey # Null
    /\ tickets[reqs[r].ticketId].reservedPrizeId = Null

\* the prizes a pre-checkout request checks
Checked(r) ==
  {p \in Prizes : p = reqs[r].prizeId \/ p \in reqs[r].prizeVariantIds}

\* C39: no step of a pre-checkout request (of a prize variant or of a cart)
\* changes a ticket, and the request is answered with the conflict exactly
\* when, at its query, a ticket other than the acting one has an unexpired
\* hold on a prize it checks.
C39_PreCheckReadOnly ==
  [][\A r \in ReqIds :
       (reqs'[r] # reqs[r] /\ reqs'[r].op \in {"precheck", "precart"})
       => /\ tickets' = tickets
          /\ reqs[r].pc # "pending" => reqs'[r].out # "OtherPending"
          /\ reqs[r].pc = "pending"
             => ( reqs'[r].out = "OtherPending"
                  <=> \E t \in TicketIds \ {reqs[r].ticketId}, p \in Checked(r) :
                        Unexpired(t, p) )]_vars

\* a pre-checkout of a prize succeeded while the acting ticket itself holds
\* the prize unexpired
C39_Witness ==
  \E r \in ReqIds :
    /\ reqs[r].op = "precheck" /\ reqs[r].out = "Success"
    /\ reqs[r].prizeId # Null
    /\ Unexpired(reqs[r].ticketId, reqs[r].prizeId)

====
